---- MODULE Spec2Model ----
(***************************************************************************)
(* csv_me: the boolean row-predicate engine of src/csv_me/conditions.py.   *)
(*                                                                         *)
(* A Python str is a sequence of one-character strings.  The two values    *)
(* that are no str, None (a Condition without a value) and NaN (the        *)
(* missing marker of a cell), are one-element sequences holding a token    *)
(* that is no character, so they differ from every str.                    *)
(*                                                                         *)
(* A call's outcome is a record [exc, value]: exc = "" when the call       *)
(* returned value, otherwise the name of the exception that left it.       *)
(***************************************************************************)
EXTENDS Integers, Sequences, FiniteSets, TLC

VARIABLES row, pending, verdicts, evals,   \* the evaluator and its caller
          display,                         \* the formatter
          args, stack, trace, result,      \* the interactive builder
          session, disk, resumed,          \* the session and its directory
          edit,                            \* the Manual Edit feature
          flat,                            \* the flat API: lists of conditions
          removal                          \* the Remove Rows feature

evalVars == <<row, pending, verdicts, evals>>
buildVars == <<args, stack, trace, result>>
sessVars == <<session, disk, resumed>>

vars == <<evalVars, display, buildVars, sessVars, edit, flat, removal>>

\* what the evaluator's caller, the builder and the session leave alone
beyondEval == <<buildVars, sessVars, edit, removal>>
beyondBuild == <<evalVars, display, flat, sessVars, edit, removal>>
beyondSession == <<evalVars, display, flat, buildVars, edit, removal>>

-----------------------------------------------------------------------------
(* Bounds of the model.                                                    *)

MaxCellLen == 3
MaxValueLen == 2
MaxNum == 2
MaxEvals == 2
MaxNodes == 3

-----------------------------------------------------------------------------
(* Characters and the str methods the evaluator calls.                     *)

None == <<"None">>
NaN == <<"NaN">>

Whitespace == {" ", "\t"}
Letters ==
    {"a", "b", "c", "e", "g", "l", "o", "q", "s", "t", "u", "h", "n", "D", "J"}
Digits == {"0", "1", "2", "3", "4", "5", "6", "7", "8", "9"}

DigitValue(c) ==
    CASE c = "0" -> 0 [] c = "1" -> 1 [] c = "2" -> 2 [] c = "3" -> 3
      [] c = "4" -> 4 [] c = "5" -> 5 [] c = "6" -> 6 [] c = "7" -> 7
      [] c = "8" -> 8 [] c = "9" -> 9

DigitChar(d) ==
    CASE d = 0 -> "0" [] d = 1 -> "1" [] d = 2 -> "2" [] d = 3 -> "3"
      [] d = 4 -> "4" [] d = 5 -> "5" [] d = 6 -> "6" [] d = 7 -> "7"
      [] d = 8 -> "8" [] d = 9 -> "9"

StringsOver(alphabet, n) == UNION {[1..k -> alphabet] : k \in 0..n}

Return(b) == [exc |-> "", value |-> b]
Raise(e) == [exc |-> e, value |-> FALSE]

\* str.lstrip / str.rstrip / str.strip with no argument
RECURSIVE lstrip(_)
lstrip(s) ==
    IF s # <<>> /\ Head(s) \in Whitespace THEN lstrip(Tail(s)) ELSE s

RECURSIVE rstrip(_)
rstrip(s) ==
    IF s # <<>> /\ s[Len(s)] \in Whitespace
    THEN rstrip(SubSeq(s, 1, Len(s) - 1))
    ELSE s

strip(s) == rstrip(lstrip(s))

\* the first word of a str that starts with a non-whitespace character
RECURSIVE first_word(_)
first_word(s) ==
    IF s = <<>> \/ Head(s) \in Whitespace
    THEN <<>>
    ELSE <<Head(s)>> \o first_word(Tail(s))

\* str.split() with no argument: the maximal runs of non-whitespace
RECURSIVE split(_)
split(s) ==
    LET t == lstrip(s)
        w == first_word(t)
    IN  IF t = <<>> THEN <<>>
        ELSE <<w>> \o split(SubSeq(t, Len(w) + 1, Len(t)))

\* str.replace(old, "") for a one-character old
replace_char(s, old) == SelectSeq(s, LAMBDA c : c # old)

\* str.isalpha(): at least one character and every character a letter
isalpha(s) == s # <<>> /\ \A i \in 1..Len(s) : s[i] \in Letters

\* needle in hay
contains(needle, hay) ==
    \E i \in 0..(Len(hay) - Len(needle)) :
        SubSeq(hay, i + 1, i + Len(needle)) = needle

\* str.split(sep, 1) for a one-character sep
split_once(s, sep) ==
    IF \E i \in 1..Len(s) : s[i] = sep
    THEN LET i == CHOOSE j \in 1..Len(s) :
                      s[j] = sep /\ \A k \in 1..(j - 1) : s[k] # sep
         IN  <<SubSeq(s, 1, i - 1), SubSeq(s, i + 1, Len(s))>>
    ELSE <<s>>

\* the digits of int(): digit groups joined by single underscores
RECURSIVE digits_value(_, _)
digits_value(s, acc) ==
    IF s = <<>> THEN acc
    ELSE IF Head(s) = "_" THEN digits_value(Tail(s), acc)
    ELSE digits_value(Tail(s), 10 * acc + DigitValue(Head(s)))

digits_ok(s) ==
    /\ s # <<>>
    /\ \A i \in 1..Len(s) : s[i] \in Digits \cup {"_"}
    /\ s[1] # "_" /\ s[Len(s)] # "_"
    /\ \A i \in 1..(Len(s) - 1) : ~(s[i] = "_" /\ s[i + 1] = "_")

\* int(s) of a str: surrounding whitespace, an optional sign, the digits;
\* anything else raises ValueError
PyInt(s) ==
    LET t == strip(s)
        signed == t # <<>> /\ Head(t) \in {"+", "-"}
        body == IF signed THEN Tail(t) ELSE t
        magnitude == digits_value(body, 0)
    IN  IF digits_ok(body)
        THEN [exc |-> "",
              num |-> IF signed /\ Head(t) = "-" THEN 0 - magnitude ELSE magnitude]
        ELSE [exc |-> "ValueError", num |-> 0]

\* str(n) of an int, as the f-string of the word-count prompt formats it
RECURSIVE nat_str(_)
nat_str(n) ==
    IF n < 10 THEN <<DigitChar(n)>>
    ELSE nat_str(n \div 10) \o <<DigitChar(n % 10)>>

int_str(n) == IF n < 0 THEN <<"-">> \o nat_str(0 - n) ELSE nat_str(n)

-----------------------------------------------------------------------------
(* The expression model: Condition, AndExpr, OrExpr, NotExpr.              *)

Condition(input_col, operator, value) ==
    [kind |-> "Condition", input_col |-> input_col, operator |-> operator,
     value |-> value]

AndExpr(children) == [kind |-> "AndExpr", children |-> children]
OrExpr(children) == [kind |-> "OrExpr", children |-> children]
NotExpr(child) == [kind |-> "NotExpr", child |-> child]

\* an object that is an instance of none of the four classes
Unrecognized == [kind |-> "object"]

OPERATORS ==
    <<"not_empty", "equals", "not_equals", "contains", "word_count", "alpha_only">>

gt == <<"g", "t">>
lt == <<"l", "t">>
eq == <<"e", "q">>
WORD_COUNT_COMPARISONS == <<gt, lt, eq>>

-----------------------------------------------------------------------------
(* Evaluation.                                                             *)

\* row.get(col, default) of a Series
row_get(r, col, default) == IF col \in DOMAIN r THEN r[col] ELSE default

\* pd.isna of a scalar
isna(raw) == raw \in {NaN, None}

\* val without the strip()
cell_val_untrimmed(r, cond) ==
    LET raw == row_get(r, cond.input_col, <<>>)
    IN  IF isna(raw) THEN <<>> ELSE raw

\* val: the trimmed text of the cell, "" for an absent column or a missing cell
cell_val(r, cond) ==
    LET raw == row_get(r, cond.input_col, <<>>)
    IN  IF isna(raw) THEN <<>> ELSE strip(raw)

\* (cond.value or "")
value_or_empty(value) == IF value = None \/ value = <<>> THEN <<>> ELSE value

\* the word_count branch ends without a return when cmp_op is none of gt, lt, eq
FellThrough == [exc |-> "", fell_through |-> TRUE]

op_equals(val, value) == Return(val = value_or_empty(value))

\* not_equals against cond.value itself, None included
op_not_equals_raw(val, value) == Return(val # value)

op_not_equals(val, value) == Return(val # value_or_empty(value))

\* contains with cond.value itself: None in val is a TypeError
op_contains_no_default(val, value) ==
    IF value = None THEN Raise("TypeError") ELSE Return(contains(value, val))

op_contains(val, value) == Return(contains(value_or_empty(value), val))

\* the word_count branch with int() outside any try
op_word_count_uncaught(val, value) ==
    LET count == IF val # <<>> THEN Len(split(val)) ELSE 0
        parts == split_once(value_or_empty(value), ":")
    IN  IF Len(parts) # 2 THEN Return(FALSE)
        ELSE LET cmp_op == parts[1]
                 num == PyInt(parts[2])
             IN  IF num.exc # "" THEN Raise(num.exc)
                 ELSE IF cmp_op = gt THEN Return(count > num.num)
                 ELSE IF cmp_op = lt THEN Return(count < num.num)
                 ELSE IF cmp_op = eq THEN Return(count = num.num)
                 ELSE FellThrough

\* the word_count branch taking 0 for a number that does not parse
op_word_count_default_zero(val, value) ==
    LET count == IF val # <<>> THEN Len(split(val)) ELSE 0
        parts == split_once(value_or_empty(value), ":")
    IN  IF Len(parts) # 2 THEN Return(FALSE)
        ELSE LET cmp_op == parts[1]
                 num == PyInt(parts[2])
             IN  IF cmp_op = gt THEN Return(count > num.num)
                 ELSE IF cmp_op = lt THEN Return(count < num.num)
                 ELSE IF cmp_op = eq THEN Return(count = num.num)
                 ELSE FellThrough

\* the word_count branch with >= for gt
op_word_count_ge(val, value) ==
    LET count == IF val # <<>> THEN Len(split(val)) ELSE 0
        parts == split_once(value_or_empty(value), ":")
    IN  IF Len(parts) # 2 THEN Return(FALSE)
        ELSE LET cmp_op == parts[1]
                 num == PyInt(parts[2])
             IN  IF num.exc = "ValueError" THEN Return(FALSE)
                 ELSE IF cmp_op = gt THEN Return(count >= num.num)
                 ELSE IF cmp_op = lt THEN Return(count < num.num)
                 ELSE IF cmp_op = eq THEN Return(count = num.num)
                 ELSE FellThrough

op_word_count(val, value) ==
    LET count == IF val # <<>> THEN Len(split(val)) ELSE 0
        parts == split_once(value_or_empty(value), ":")
    IN  IF Len(parts) # 2 THEN Return(FALSE)
        ELSE LET cmp_op == parts[1]
                 num == PyInt(parts[2])
             IN  IF num.exc = "ValueError" THEN Return(FALSE)
                 ELSE IF cmp_op = gt THEN Return(count > num.num)
                 ELSE IF cmp_op = lt THEN Return(count < num.num)
                 ELSE IF cmp_op = eq THEN Return(count = num.num)
                 ELSE FellThrough

\* alpha_only without the replace(" ", "")
op_alpha_only_no_replace(val) ==
    Return(IF val # <<>> THEN isalpha(val) ELSE FALSE)

op_alpha_only(val) ==
    Return(IF val # <<>> THEN isalpha(replace_char(val, " ")) ELSE FALSE)

evaluate_single_condition(r, cond) ==
    LET val == cell_val(r, cond)
        wc == op_word_count(val, cond.value)
    IN  IF cond.operator = "not_empty" THEN Return(val # <<>>)
        ELSE IF cond.operator = "equals" THEN op_equals(val, cond.value)
        ELSE IF cond.operator = "not_equals" THEN op_not_equals(val, cond.value)
        ELSE IF cond.operator = "contains" THEN op_contains(val, cond.value)
        ELSE IF cond.operator = "word_count" /\ wc # FellThrough THEN wc
        ELSE IF cond.operator = "alpha_only" THEN op_alpha_only(val)
        ELSE Return(FALSE)

\* all(...) that looks at the first child only
py_all_first_only(outs) ==
    IF outs = <<>> THEN Return(TRUE)
    ELSE IF outs[1].exc # "" THEN outs[1] ELSE Return(outs[1].value)

\* all(...) over the children's outcomes in order: the first child that raises
\* or is false ends the iteration
py_all(outs) ==
    LET stop == {i \in 1..Len(outs) : outs[i].exc # "" \/ ~outs[i].value}
    IN  IF stop = {} THEN Return(TRUE)
        ELSE LET i == CHOOSE j \in stop : \A k \in stop : j <= k
             IN  IF outs[i].exc # "" THEN outs[i] ELSE Return(FALSE)

\* any(...): the first child that raises or is true ends the iteration
py_any(outs) ==
    LET stop == {i \in 1..Len(outs) : outs[i].exc # "" \/ outs[i].value}
    IN  IF stop = {} THEN Return(FALSE)
        ELSE LET i == CHOOSE j \in stop : \A k \in stop : j <= k
             IN  IF outs[i].exc # "" THEN outs[i] ELSE Return(TRUE)

\* a negation that answers False whenever the child is not true
py_not_forgetful(out) == IF out.exc # "" THEN out ELSE Return(FALSE)

\* not ...
py_not(out) == IF out.exc # "" THEN out ELSE Return(~out.value)

RECURSIVE evaluate_expression(_, _)
evaluate_expression(r, expr) ==
    IF expr.kind = "Condition" THEN evaluate_single_condition(r, expr)
    ELSE IF expr.kind = "AndExpr"
    THEN py_all([i \in 1..Len(expr.children) |->
                    evaluate_expression(r, expr.children[i])])
    ELSE IF expr.kind = "OrExpr"
    THEN py_any([i \in 1..Len(expr.children) |->
                    evaluate_expression(r, expr.children[i])])
    ELSE IF expr.kind = "NotExpr"
    THEN py_not(evaluate_expression(r, expr.child))
    ELSE Return(FALSE)

-----------------------------------------------------------------------------
(* The inputs: rows, conditions and expression trees handed to the         *)
(* evaluator.                                                              *)

Columns == {"Name", "Age"}

CellAlphabet == {"a", "1", "-", " ", "\t"}
Cells == StringsOver(CellAlphabet, MaxCellLen) \cup {NaN}
AgeCells == {<<"3", "0">>}

ShortCells == StringsOver(CellAlphabet, 1) \cup {NaN}

\* a row maps the columns it has to their cells: any cell in a row of one
\* column, a short one beside a second column
Rows ==
    {r \in UNION {[d -> Cells \cup AgeCells] : d \in SUBSET Columns} :
        /\ "Name" \in DOMAIN r => r["Name"] \in Cells
        /\ "Age" \in DOMAIN r => r["Age"] \in AgeCells
        /\ DOMAIN r = Columns => r["Name"] \in ShortCells}

ValueAlphabet == {"a", " "}
TextValues == StringsOver(ValueAlphabet, MaxValueLen) \cup {None}

colon == <<":">>
bogus == <<"b", "o", "g", "u", "s">>
abc == <<"a", "b", "c">>

\* "kind:n" as the word-count prompt writes it
encode_word_count(cmp_op, n) == cmp_op \o colon \o int_str(n)

WellFormedCounts ==
    {encode_word_count(WORD_COUNT_COMPARISONS[k], n) :
        k \in 1..Len(WORD_COUNT_COMPARISONS), n \in (0 - MaxNum)..MaxNum}

\* values of a word_count condition that are no "kind:n": no separator, no
\* integer after it, or a kind that is none of gt, lt, eq
MalformedCounts ==
    {bogus, gt, gt \o colon, gt \o colon \o abc, colon \o <<"1">>,
     <<"g", "e">> \o colon \o <<"1">>, <<"g", "e">> \o colon \o abc,
     gt \o colon \o <<"1", ".", "5">>, gt \o colon \o <<"-", "-", "1">>,
     gt \o colon \o <<"1">> \o colon \o <<"2">>, gt \o colon \o <<"_", "1">>,
     gt \o <<" ">> \o colon \o <<"0">>}

\* values int() accepts although the prompt never writes them
LenientCounts ==
    {gt \o colon \o <<" ", "1">>, lt \o colon \o <<"+", "1">>,
     eq \o colon \o <<"0", "1">>, lt \o colon \o <<"1", "_", "0">>,
     eq \o colon \o <<"-", "0">>, gt \o colon \o <<"0", "\t">>}

OperatorNames == {OPERATORS[i] : i \in 1..Len(OPERATORS)} \cup {"starts_with"}

ValuesFor(operator) ==
    IF operator = "word_count"
    THEN WellFormedCounts \cup MalformedCounts \cup LenientCounts \cup TextValues
    ELSE IF operator \in {"equals", "not_equals", "contains"}
    THEN TextValues
    ELSE {None, <<"a">>}

Conditions ==
    UNION {{Condition(col, operator, value) :
                col \in Columns, value \in ValuesFor(operator)} :
           operator \in OperatorNames}

\* the number of nodes of a tree
RECURSIVE size(_)
RECURSIVE sizes(_)
size(expr) ==
    IF expr.kind \in {"AndExpr", "OrExpr"} THEN 1 + sizes(expr.children)
    ELSE IF expr.kind = "NotExpr" THEN 1 + size(expr.child)
    ELSE 1
sizes(exprs) == IF exprs = <<>> THEN 0 ELSE size(Head(exprs)) + sizes(Tail(exprs))

-----------------------------------------------------------------------------
(* The state: the row, the expressions the caller holds (pending), the     *)
(* outcome of the evaluation of each since pending last changed            *)
(* (verdicts), and the number of those evaluations (evals).                *)

NotEvaluated == [evaluated |-> FALSE]

Unevaluated(n) == [i \in 1..n |-> NotEvaluated]

\* build_expression has not been called
NoExpr == [kind |-> "NoneType"]
NotReturned == [kind |-> "running"]
NoArgs == [columns |-> <<>>, header_fn |-> FALSE]

NotCalled ==
    /\ args = NoArgs
    /\ stack = <<>>
    /\ trace = <<>>
    /\ result = NotReturned

\* no Session has been constructed, no directory made, no feature entered
NoSession == [alive |-> FALSE]
NoManifest == [written |-> FALSE]
NoDir == [exists |-> FALSE, files |-> {}, manifest |-> NoManifest, log |-> <<>>]
NotTried == [exc |-> "", tried |-> FALSE]
NotEditing == [pc |-> "outside"]

NotRemoving == [pc |-> "outside"]

NotStarted ==
    /\ session = NoSession
    /\ disk = NoDir
    /\ resumed = NotTried
    /\ edit = NotEditing
    /\ removal = NotRemoving

\* format_expression has not been called on an expression held
NotFormatted == [formatted |-> FALSE]

\* no evaluator has been applied to the list of conditions held
NoOutcome == [exc |-> "", applied |-> FALSE]
NotApplied ==
    [evaluate_conditions |-> NoOutcome, evaluate_expression |-> NoOutcome,
     split_join |-> NoOutcome]

InitWith(rows) ==
    /\ row \in rows
    /\ pending = <<>>
    /\ verdicts = <<>>
    /\ evals = 0
    /\ display = NotFormatted
    /\ flat = NotApplied
    /\ NotCalled
    /\ NotStarted

\* the caller holds one more expression
Hold(exprs) ==
    /\ pending' = exprs
    /\ verdicts' = Unevaluated(Len(exprs))
    /\ evals' = 0
    /\ display' = NotFormatted
    /\ flat' = NotApplied
    /\ UNCHANGED <<row, beyondEval>>

\* Condition(input_col=..., operator=..., value=...)
NewCondition(conds, limit) ==
    /\ Len(pending) < limit
    /\ sizes(pending) < MaxNodes
    /\ \E cond \in conds : Hold(Append(pending, cond))

\* an object of another class where an expression is expected
NewUnrecognized ==
    /\ sizes(pending) < MaxNodes
    /\ Hold(Append(pending, Unrecognized))

\* AndExpr(children=[the last k expressions held])
NewAndExpr ==
    /\ sizes(pending) < MaxNodes
    /\ \E k \in 0..Len(pending) :
         LET n == Len(pending)
         IN  Hold(Append(SubSeq(pending, 1, n - k),
                         AndExpr(SubSeq(pending, n - k + 1, n))))

\* OrExpr(children=[the last k expressions held])
NewOrExpr ==
    /\ sizes(pending) < MaxNodes
    /\ \E k \in 0..Len(pending) :
         LET n == Len(pending)
         IN  Hold(Append(SubSeq(pending, 1, n - k),
                         OrExpr(SubSeq(pending, n - k + 1, n))))

\* NotExpr(child=the last expression held)
NewNotExpr ==
    /\ sizes(pending) < MaxNodes
    /\ pending # <<>>
    /\ LET n == Len(pending)
       IN  Hold(Append(SubSeq(pending, 1, n - 1), NotExpr(pending[n])))

\* an evaluation that consumes the children list of the group it visits
EvaluateDraining(i, limit) ==
    /\ evals < limit
    /\ verdicts' = [verdicts EXCEPT ![i] = evaluate_expression(row, pending[i])]
    /\ evals' = evals + 1
    /\ pending' = [pending EXCEPT ![i] =
                      IF @.kind \in {"AndExpr", "OrExpr"}
                      THEN [@ EXCEPT !.children = <<>>]
                      ELSE @]
    /\ UNCHANGED <<row, display, flat, beyondEval>>

\* evaluate_expression(row, pending[i]): the call reads row and the tree and
\* stores nothing in either
Evaluate(i, limit) ==
    /\ evals < limit
    /\ verdicts' = [verdicts EXCEPT ![i] = evaluate_expression(row, pending[i])]
    /\ evals' = evals + 1
    /\ UNCHANGED <<row, pending, display, flat, beyondEval>>

EvaluateAny(limit) == \E i \in 1..Len(pending) : Evaluate(i, limit)

\* Single conditions from the whole of Conditions against the whole of Rows,
\* each evaluated once.
Init == InitWith(Rows)

Next ==
    \/ NewCondition(Conditions, 1)
    \/ EvaluateAny(1)

Spec == Init /\ [][Next]_vars

\* Trees over a few leaves: one always true (an absent column, no value), three
\* always false (a ValueError inside, a comparison kind that falls through, an
\* unknown operator) and one that depends on the row.
TreeLeaves ==
    {Condition("Age", "contains", None),
     Condition("Name", "word_count", gt \o colon \o abc),
     Condition("Name", "word_count", <<"g", "e">> \o colon \o <<"1">>),
     Condition("Name", "starts_with", <<"a">>),
     Condition("Name", "not_empty", None)}

TreeRows ==
    {r \in Rows : DOMAIN r = {"Name"} /\ r["Name"] \in {NaN, <<"a">>}}

TreeInit == InitWith(TreeRows)

TreeNext ==
    \/ NewCondition(TreeLeaves, MaxNodes)
    \/ NewUnrecognized
    \/ NewAndExpr
    \/ NewOrExpr
    \/ NewNotExpr
    \/ EvaluateAny(MaxEvals)

TreeSpec == TreeInit /\ [][TreeNext]_vars

-----------------------------------------------------------------------------
(* Properties of evaluate_expression over trees (TreeSpec).                *)

Evaluated == {i \in 1..Len(pending) : verdicts[i] # NotEvaluated}

IsGroup(expr) == expr.kind \in {"AndExpr", "OrExpr"}

\* C1: the verdict of NotExpr(e) is the boolean negation of the verdict of e,
\* for e a Condition, a group, a NotExpr or an unrecognized node
C1_NotNegates ==
    \A i \in Evaluated :
        pending[i].kind = "NotExpr" =>
            LET inner == evaluate_expression(row, pending[i].child)
            IN  /\ inner.exc = ""
                /\ verdicts[i] = Return(~inner.value)

\* a NotExpr over a node that is no Condition has been evaluated to true
C1_Witness ==
    \E i \in Evaluated :
        /\ pending[i].kind = "NotExpr"
        /\ pending[i].child.kind # "Condition"
        /\ verdicts[i] = Return(TRUE)

\* C2: AndExpr(cs) is true iff every child of cs is true on the row (true for
\* no children); OrExpr(cs) is true iff some child is (false for no children)
C2_AllAndAny ==
    \A i \in Evaluated :
        LET cs == pending[i].children
            holds(k) == evaluate_expression(row, cs[k]) = Return(TRUE)
        IN  /\ pending[i].kind = "AndExpr" =>
                verdicts[i] = Return(\A k \in 1..Len(cs) : holds(k))
            /\ pending[i].kind = "OrExpr" =>
                verdicts[i] = Return(\E k \in 1..Len(cs) : holds(k))

\* a group of two children, the first true and the second false, has been
\* evaluated
C2_Witness ==
    \E i \in Evaluated :
        /\ IsGroup(pending[i])
        /\ Len(pending[i].children) = 2
        /\ evaluate_expression(row, pending[i].children[1]) = Return(TRUE)
        /\ evaluate_expression(row, pending[i].children[2]) = Return(FALSE)

\* the nodes of a tree, the tree itself included
RECURSIVE Nodes(_)
Nodes(expr) ==
    {expr} \cup
    (IF IsGroup(expr)
     THEN UNION {Nodes(expr.children[k]) : k \in 1..Len(expr.children)}
     ELSE IF expr.kind = "NotExpr" THEN Nodes(expr.child)
     ELSE {})

KnownOperators == {OPERATORS[k] : k \in 1..Len(OPERATORS)}

\* C3: every evaluation returns a boolean and none ends in an error; an
\* unrecognized node and a Condition with an unknown operator are false
C3_Total ==
    \A i \in Evaluated :
        /\ verdicts[i].exc = ""
        /\ verdicts[i].value \in BOOLEAN
        /\ DOMAIN verdicts[i] = {"exc", "value"}
        /\ pending[i].kind \notin {"Condition", "AndExpr", "OrExpr", "NotExpr"}
             => verdicts[i] = Return(FALSE)
        /\ (pending[i].kind = "Condition"
            /\ pending[i].operator \notin KnownOperators)
             => verdicts[i] = Return(FALSE)

\* a tree holding a word_count condition whose number does not parse, under a
\* NotExpr or a group, has been evaluated
C3_Witness ==
    \E i \in Evaluated :
        /\ pending[i].kind # "Condition"
        /\ \E n \in Nodes(pending[i]) :
              /\ n.kind = "Condition"
              /\ n.operator = "word_count"
              /\ n.value = gt \o colon \o abc
        /\ verdicts[i].exc = ""

-----------------------------------------------------------------------------
(* Properties of single conditions (Spec).                                 *)

EvaluatedConditions == {i \in Evaluated : pending[i].kind = "Condition"}

\* a cell without its leading and trailing whitespace
NonBlank(s) == {i \in 1..Len(s) : s[i] \notin Whitespace}

Trimmed(s) ==
    IF NonBlank(s) = {} THEN <<>>
    ELSE SubSeq(s, CHOOSE i \in NonBlank(s) : \A j \in NonBlank(s) : i <= j,
                   CHOOSE i \in NonBlank(s) : \A j \in NonBlank(s) : i >= j)

\* the effective value of a column in a row
EffectiveValue(r, col) ==
    IF col \notin DOMAIN r \/ r[col] = NaN THEN <<>> ELSE Trimmed(r[col])

\* rows with the same effective value of col as r: the cell padded with
\* whitespace or trimmed, the other columns dropped, and for an empty value no
\* column, a missing cell or a blank cell
SameValueRows(r, col) ==
    LET e == EffectiveValue(r, col)
        rest == DOMAIN r \ {col}
        with(cell) == [c \in rest \cup {col} |-> IF c = col THEN cell ELSE r[c]]
        pads == StringsOver(Whitespace, 1)
    IN  {with(pre \o e \o post) : pre \in pads, post \in pads}
        \cup {[c \in {col} |-> e]}
        \cup (IF e = <<>>
              THEN {[c \in rest |-> r[c]], with(NaN), with(<<" ", "\t">>)}
              ELSE {})

\* C4: the verdict of a Condition is the verdict on every row with the same
\* effective value of input_col, and is never an error
C4_OnlyEffectiveValue ==
    \A i \in EvaluatedConditions :
        /\ verdicts[i].exc = ""
        /\ \A r \in SameValueRows(row, pending[i].input_col) :
              /\ EffectiveValue(r, pending[i].input_col)
                   = EffectiveValue(row, pending[i].input_col)
              /\ evaluate_single_condition(r, pending[i]) = verdicts[i]

\* an equals condition has been found true on a cell that carries leading or
\* trailing whitespace
C4_Witness ==
    \E i \in EvaluatedConditions :
        LET col == pending[i].input_col
        IN  /\ pending[i].operator = "equals"
            /\ col \in DOMAIN row
            /\ row[col] # NaN
            /\ row[col] # Trimmed(row[col])
            /\ Trimmed(row[col]) # <<>>
            /\ verdicts[i] = Return(TRUE)

\* C5: equals and not_equals on the same row, column and value are opposite
C5_EqualsComplement ==
    \A i \in EvaluatedConditions :
        pending[i].operator \in {"equals", "not_equals"} =>
            LET other == IF pending[i].operator = "equals"
                         THEN "not_equals" ELSE "equals"
                twin == Condition(pending[i].input_col, other, pending[i].value)
            IN  /\ verdicts[i].exc = ""
                /\ evaluate_single_condition(row, twin)
                     = Return(~verdicts[i].value)

\* a not_equals condition with value None has been evaluated on an empty value
C5_Witness ==
    \E i \in EvaluatedConditions :
        /\ pending[i].operator = "not_equals"
        /\ pending[i].value = None
        /\ EffectiveValue(row, pending[i].input_col) = <<>>
        /\ verdicts[i] = Return(FALSE)

\* C6: contains with the empty string or None is true on every row
C6_EmptyContained ==
    \A i \in EvaluatedConditions :
        (pending[i].operator = "contains" /\ pending[i].value \in {None, <<>>})
            => verdicts[i] = Return(TRUE)

\* contains with None has been evaluated on a row without the column
C6_Witness ==
    \E i \in EvaluatedConditions :
        /\ pending[i].operator = "contains"
        /\ pending[i].value = None
        /\ pending[i].input_col \notin DOMAIN row
        /\ verdicts[i] = Return(TRUE)

\* text that denotes an integer for int(): optional surrounding whitespace, an
\* optional sign, digits, single underscores only between two digits
IsIntegerText(text) ==
    LET t == Trimmed(text)
        from == IF t # <<>> /\ t[1] \in {"+", "-"} THEN 2 ELSE 1
    IN  /\ from <= Len(t)
        /\ \A k \in from..Len(t) :
              \/ t[k] \in Digits
              \/ /\ t[k] = "_"
                 /\ from < k /\ k < Len(t)
                 /\ t[k - 1] \in Digits /\ t[k + 1] \in Digits

\* a word_count value that is no "kind:n"
Malformed(value) ==
    \/ value \in {None, <<>>}
    \/ \A k \in 1..Len(value) : value[k] # ":"
    \/ LET at == CHOOSE k \in 1..Len(value) :
                     value[k] = ":" /\ \A j \in 1..(k - 1) : value[j] # ":"
       IN  \/ SubSeq(value, 1, at - 1) \notin {gt, lt, eq}
           \/ ~IsIntegerText(SubSeq(value, at + 1, Len(value)))

\* C7: word_count with a malformed value is false on every row, not an error
C7_MalformedIsFalse ==
    \A i \in EvaluatedConditions :
        (pending[i].operator = "word_count" /\ Malformed(pending[i].value))
            => verdicts[i] = Return(FALSE)

\* word_count with "gt:abc" has been evaluated on a cell that has words
C7_Witness ==
    \E i \in EvaluatedConditions :
        /\ pending[i].operator = "word_count"
        /\ pending[i].value = gt \o colon \o abc
        /\ EffectiveValue(row, pending[i].input_col) # <<>>
        /\ verdicts[i] = Return(FALSE)

\* the words of a cell: the places where a run of non-whitespace starts
WordStarts(r, col) ==
    IF col \notin DOMAIN r \/ r[col] = NaN THEN {}
    ELSE {k \in NonBlank(r[col]) : k = 1 \/ r[col][k - 1] \in Whitespace}

Compare(cmp_op, count, n) ==
    CASE cmp_op = gt -> count > n
      [] cmp_op = lt -> count < n
      [] cmp_op = eq -> count = n

\* C8: word_count with "kind:n" compares the number of words of the cell with
\* n: > for gt, < for lt, = for eq; no words for an empty, absent or missing cell
C8_WordCountCompares ==
    \A i \in EvaluatedConditions :
        pending[i].operator = "word_count" =>
            \A k \in 1..Len(WORD_COUNT_COMPARISONS), n \in (0 - MaxNum)..MaxNum :
                pending[i].value = encode_word_count(WORD_COUNT_COMPARISONS[k], n)
                    => verdicts[i] =
                         Return(Compare(WORD_COUNT_COMPARISONS[k],
                                        Cardinality(WordStarts(row, pending[i].input_col)),
                                        n))

\* word_count "eq:2" has been found true on a cell of two words
C8_Witness ==
    \E i \in EvaluatedConditions :
        /\ pending[i].operator = "word_count"
        /\ pending[i].value = encode_word_count(eq, 2)
        /\ Cardinality(WordStarts(row, pending[i].input_col)) = 2
        /\ verdicts[i] = Return(TRUE)

\* C9: alpha_only is true iff the trimmed value without its spaces is non-empty
\* and all letters; it is false for an empty value and for a value with a digit
\* or a punctuation character
C9_AlphaOnly ==
    \A i \in EvaluatedConditions :
        pending[i].operator = "alpha_only" =>
            LET e == EffectiveValue(row, pending[i].input_col)
                kept == {k \in 1..Len(e) : e[k] # " "}
            IN  /\ verdicts[i] =
                     Return(kept # {} /\ \A k \in kept : e[k] \in Letters)
                /\ (e = <<>> \/ \E k \in 1..Len(e) : e[k] \in Digits \cup {"-"})
                     => verdicts[i] = Return(FALSE)

\* alpha_only has been found true on letters separated by a space
C9_Witness ==
    \E i \in EvaluatedConditions :
        /\ pending[i].operator = "alpha_only"
        /\ \E k \in 1..Len(EffectiveValue(row, pending[i].input_col)) :
              EffectiveValue(row, pending[i].input_col)[k] = " "
        /\ verdicts[i] = Return(TRUE)

-----------------------------------------------------------------------------
(* The frame of evaluate_expression (TreeSpec).                            *)

-----------------------------------------------------------------------------
(* The interactive builder: build_expression and the functions under it.   *)
(*                                                                         *)
(* stack holds one frame per active call, the innermost last; a frame's pc *)
(* is the prompt the call waits at or the call it waits for.  One step of  *)
(* the builder is one answer of the user: the code runs from the prompt    *)
(* that read it to the next prompt, or to the return of build_expression.  *)
(* trace is what that step did, in order: the answer read, the calls of    *)
(* the refresh hook, what was printed, the returns.  result is what        *)
(* build_expression returned.  None as the result of a function that       *)
(* returns an expression is NoExpr.                                        *)

MaxBuilt == 4

GroupFrame(group_type, children, pc) ==
    [fn |-> "_build_group", group_type |-> group_type, children |-> children,
     pc |-> pc]

NotFrame(pc) == [fn |-> "_build_not", pc |-> pc]

SingleFrame(pc, op, in_col) ==
    [fn |-> "_build_single_condition", pc |-> pc, op |-> op, in_col |-> in_col]

WordCountFrame(pc, cmp_op) ==
    [fn |-> "_prompt_word_count_value", pc |-> pc, cmp_op |-> cmp_op]

top(m) == m.stack[Len(m.stack)]
push(m, frame) == [m EXCEPT !.stack = Append(@, frame)]
pop(m) == [m EXCEPT !.stack = SubSeq(@, 1, Len(@) - 1)]
at(m, pc) == [m EXCEPT !.stack[Len(m.stack)].pc = pc]
say(m, event) == [m EXCEPT !.trace = Append(@, event)]

printed(text) == [ev |-> "print", text |-> text]
menu(fn) == [ev |-> "menu", fn |-> fn]
returned(fn, value) == [ev |-> "return", fn |-> fn, value |-> value]

\* if header_fn: header_fn()
header(m) == IF m.args.header_fn THEN say(m, [ev |-> "header_fn"]) ELSE m

\* a group node that forgets the declared type
group_node_and(frame) == AndExpr(frame.children)

\* the node a group frame stands for
group_node(frame) ==
    IF frame.group_type = "and"
    THEN AndExpr(frame.children)
    ELSE OrExpr(frame.children)

\* the top of the loop of _build_group, down to its prompt
group_menu(m) ==
    LET frame == top(m)
        refreshed == header(m)
        shown == IF frame.children # <<>>
                 THEN say(refreshed, [ev |-> "expression_so_far",
                                      expr |-> group_node(frame)])
                 ELSE refreshed
    IN  at(say(shown, [ev |-> "menu", fn |-> "_build_group",
                       label |-> IF frame.group_type = "and"
                                 THEN "AND" ELSE "OR"]),
           "prompt")

\* the calls, each down to the first prompt of the function called
call_group(m, group_type) ==
    group_menu(push(m, GroupFrame(group_type, <<>>, "prompt")))

call_not(m) ==
    push(say(header(m), menu("_build_not")), NotFrame("prompt"))

call_single(m) ==
    push(say(m, menu("operator")), SingleFrame("operator", "", ""))

call_word_count(m) ==
    push(say(m, menu("comparison")), WordCountFrame("comparison", <<>>))

\* children.append(value) in the group on top
append_child(m, value) ==
    [m EXCEPT !.stack[Len(m.stack)].children = Append(@, value)]

\* a turn that appends what it got back, None included
after_turn_committing(m, value) ==
    say(append_child(m, value), printed("Added."))

\* a turn that appends the sub-group it got back, empty or not
after_turn_keeping_empty(m, value) ==
    LET pc == top(m).pc
    IN  IF pc \in {"and", "or"}
        THEN say(append_child(m, value),
                 printed(IF pc = "and" THEN "Added AND sub-group."
                                       ELSE "Added OR sub-group."))
        ELSE IF value # NoExpr
        THEN say(append_child(m, value), printed("Added."))
        ELSE m

\* _build_group after the call of one turn has returned value
after_turn(m, value) ==
    LET pc == top(m).pc
    IN  IF pc = "condition"
        THEN IF value # NoExpr
             THEN say(append_child(m, value),
                      [ev |-> "print", text |-> "Added:", cond |-> value])
             ELSE m
        ELSE IF pc \in {"and", "or"}
        THEN IF value.children # <<>>
             THEN say(append_child(m, value),
                      printed(IF pc = "and" THEN "Added AND sub-group."
                                            ELSE "Added OR sub-group."))
             ELSE say(m, printed("Empty sub-group discarded."))
        ELSE IF value # NoExpr
             THEN say(append_child(m, value), printed("Added NOT expression."))
             ELSE m

\* the innermost call returns value; its caller runs on to the next prompt
RECURSIVE returns(_, _)
RECURSIVE resume(_, _)
\* a return that hands the caller of build_expression None for an empty group
returns_discarding(m, value) ==
    LET left == say(pop(m), returned(top(m).fn, value))
    IN  IF left.stack = <<>>
        THEN [left EXCEPT !.result =
                  IF value.children = <<>> THEN NoExpr ELSE value]
        ELSE resume(left, value)

returns(m, value) ==
    LET left == say(pop(m), returned(top(m).fn, value))
    IN  IF left.stack = <<>>
        THEN [left EXCEPT !.result = value]
        ELSE resume(left, value)

\* a _build_not that wraps whatever its call gave back
resume_negating_anything(m, value) ==
    LET caller == top(m)
    IN  IF caller.fn = "_build_group"
        THEN group_menu(after_turn(m, value))
        ELSE IF caller.fn = "_build_not"
        THEN returns(m, NotExpr(value))
        ELSE IF value = None
             THEN returns(m, NoExpr)
             ELSE returns(m, Condition(caller.in_col, caller.op, value))

resume(m, value) ==
    LET caller == top(m)
    IN  IF caller.fn = "_build_group"
        THEN group_menu(after_turn(m, value))
        ELSE IF caller.fn = "_build_not"
        THEN IF caller.pc = "condition"
             THEN returns(m, IF value # NoExpr THEN NotExpr(value) ELSE NoExpr)
             ELSE IF value.children # <<>>
                  THEN returns(m, NotExpr(value))
                  ELSE returns(say(m, printed("Empty group - NOT discarded.")),
                               NoExpr)
        ELSE IF value = None
             THEN returns(m, NoExpr)
             ELSE returns(m, Condition(caller.in_col, caller.op, value))

\* choice = int(raw.strip())
choice_of(raw) == PyInt(strip(raw))

\* a group menu that leaves its loop on an answer that is no number
answer_group_leaving(m, raw) ==
    LET choice == choice_of(raw)
    IN  IF choice.exc # "" THEN returns(m, group_node(top(m)))
        ELSE IF choice.num = 0 THEN returns(m, group_node(top(m)))
        ELSE IF choice.num = 1 THEN call_single(at(m, "condition"))
        ELSE IF choice.num = 2 THEN call_group(at(m, "and"), "and")
        ELSE IF choice.num = 3 THEN call_group(at(m, "or"), "or")
        ELSE IF choice.num = 4 THEN call_not(at(m, "not"))
        ELSE group_menu(say(m, printed("Invalid selection.")))

\* _build_group, from its prompt (lines 404-437)
answer_group(m, raw) ==
    LET choice == choice_of(raw)
    IN  IF choice.exc # "" THEN group_menu(m)
        ELSE IF choice.num = 0 THEN returns(m, group_node(top(m)))
        ELSE IF choice.num = 1 THEN call_single(at(m, "condition"))
        ELSE IF choice.num = 2 THEN call_group(at(m, "and"), "and")
        ELSE IF choice.num = 3 THEN call_group(at(m, "or"), "or")
        ELSE IF choice.num = 4 THEN call_not(at(m, "not"))
        ELSE group_menu(say(m, printed("Invalid selection.")))

\* _build_not, from its prompt (lines 459-484)
answer_not(m, raw) ==
    LET choice == choice_of(raw)
    IN  IF choice.exc # "" THEN returns(m, NoExpr)
        ELSE IF choice.num = 0 THEN returns(m, NoExpr)
        ELSE IF choice.num = 1 THEN call_single(at(m, "condition"))
        ELSE IF choice.num = 2 THEN call_group(at(m, "and"), "and")
        ELSE IF choice.num = 3 THEN call_group(at(m, "or"), "or")
        ELSE returns(say(m, printed("Invalid selection.")), NoExpr)

\* a prompt for the operator that asks again after a choice it cannot use
answer_operator_asking_again(m, raw) ==
    LET idx == choice_of(raw)
    IN  IF idx.exc # "" THEN say(m, menu("operator"))
        ELSE IF ~(1 <= idx.num /\ idx.num <= Len(OPERATORS))
        THEN say(say(m, printed("Invalid selection.")), menu("operator"))
        ELSE LET chosen == [m EXCEPT !.stack[Len(m.stack)].op =
                                         OPERATORS[idx.num]]
             IN  at(say(header(chosen), menu("column")), "column")

\* _build_single_condition, from the prompt for the operator (lines 236-255)
answer_operator(m, raw) ==
    LET idx == choice_of(raw)
    IN  IF idx.exc # "" THEN returns(m, NoExpr)
        ELSE IF ~(1 <= idx.num /\ idx.num <= Len(OPERATORS))
        THEN returns(say(m, printed("Invalid selection.")), NoExpr)
        ELSE LET chosen == [m EXCEPT !.stack[Len(m.stack)].op =
                                         OPERATORS[idx.num]]
             IN  at(say(header(chosen), menu("column")), "column")

\* a column prompt that goes on to ask a value for every operator but
\* word_count
answer_column_asking_value(m, raw) ==
    LET col_idx == choice_of(raw)
        columns == m.args.columns
    IN  IF col_idx.exc # "" THEN returns(m, NoExpr)
        ELSE IF ~(1 <= col_idx.num /\ col_idx.num <= Len(columns))
        THEN returns(say(m, printed("Invalid selection.")), NoExpr)
        ELSE LET in_col == columns[col_idx.num]
                 chosen == [m EXCEPT !.stack[Len(m.stack)].in_col = in_col]
             IN  IF top(m).op = "word_count"
                 THEN call_word_count(at(chosen, "word_count"))
                 ELSE at(chosen, "value")

\* _build_single_condition, from the prompt for the column (lines 255-277)
answer_column(m, raw) ==
    LET col_idx == choice_of(raw)
        columns == m.args.columns
    IN  IF col_idx.exc # "" THEN returns(m, NoExpr)
        ELSE IF ~(1 <= col_idx.num /\ col_idx.num <= Len(columns))
        THEN returns(say(m, printed("Invalid selection.")), NoExpr)
        ELSE LET in_col == columns[col_idx.num]
                 op == top(m).op
                 chosen == [m EXCEPT !.stack[Len(m.stack)].in_col = in_col]
             IN  IF op = "word_count"
                 THEN call_word_count(at(chosen, "word_count"))
                 ELSE IF op \notin {"not_empty", "alpha_only"}
                 THEN at(chosen, "value")
                 ELSE returns(chosen, Condition(in_col, op, None))

\* _build_single_condition, from the prompt for the value (lines 273-277)
answer_value(m, raw) ==
    returns(m, Condition(top(m).in_col, top(m).op, raw))

\* _prompt_word_count_value, from the prompt for the comparison (201-212)
answer_comparison(m, raw) ==
    LET cmp_idx == choice_of(raw)
    IN  IF cmp_idx.exc # "" THEN returns(m, None)
        ELSE IF ~(1 <= cmp_idx.num
                  /\ cmp_idx.num <= Len(WORD_COUNT_COMPARISONS))
        THEN returns(say(m, printed("Invalid selection.")), None)
        ELSE at([m EXCEPT !.stack[Len(m.stack)].cmp_op =
                              WORD_COUNT_COMPARISONS[cmp_idx.num]],
                "number")

\* a number prompt that hands back the comparison without its number
answer_number_partial(m, raw) ==
    LET num == choice_of(raw)
    IN  IF num.exc # ""
        THEN returns(say(m, printed("Invalid number.")), top(m).cmp_op \o colon)
        ELSE returns(m, top(m).cmp_op \o colon \o int_str(num.num))

\* _prompt_word_count_value, from the prompt for the number (212-219)
answer_number(m, raw) ==
    LET num == choice_of(raw)
    IN  IF num.exc # ""
        THEN returns(say(m, printed("Invalid number.")), None)
        ELSE returns(m, top(m).cmp_op \o colon \o int_str(num.num))

\* the nodes the frames of a stack hold or are about to produce
RECURSIVE Weight(_, _)
Weight(frames, i) ==
    IF i = 0 THEN 0
    ELSE LET frame == frames[i]
             own == IF i > 1 /\ frames[i - 1].fn = "_build_not" THEN 0 ELSE 1
         IN  Weight(frames, i - 1)
             + (IF frame.fn = "_build_group" THEN own + sizes(frame.children)
                ELSE IF frame.fn = "_build_not" THEN 2
                ELSE IF frame.fn = "_build_single_condition" THEN own
                ELSE 0)

\* a choice that opens an item is made only while the tree stays within limit
Affordable(raw, limit) ==
    LET choice == choice_of(raw)
    IN  choice.exc = "" /\ choice.num \in 1..4 =>
            Weight(stack, Len(stack)) + (IF choice.num = 4 THEN 2 ELSE 1)
                <= limit

\* the builder as it reads raw
Reading(raw) ==
    [args |-> args, stack |-> stack, result |-> result,
     trace |-> <<[ev |-> "input", raw |-> raw]>>]

Runs(m) ==
    /\ args' = m.args
    /\ stack' = m.stack
    /\ trace' = m.trace
    /\ result' = m.result

Becomes(m) == Runs(m) /\ UNCHANGED beyondBuild

\* build_expression, from its call down to its first prompt
enter_build(columns, header_fn) ==
    call_group([args |-> [columns |-> columns, header_fn |-> header_fn],
                stack |-> <<>>, trace |-> <<>>, result |-> NotReturned],
               "and")

Waiting(fn, pc) ==
    /\ stack # <<>>
    /\ stack[Len(stack)].fn = fn
    /\ stack[Len(stack)].pc = pc

\* build_expression(columns, header_fn)
CallBuildExpression(columns, hooks) ==
    /\ NotCalled
    /\ \E header_fn \in hooks :
         Becomes(enter_build(columns, header_fn))

AnswerGroupMenu(raws, limit) ==
    /\ Waiting("_build_group", "prompt")
    /\ \E raw \in raws :
         /\ Affordable(raw, limit)
         /\ Becomes(answer_group(Reading(raw), raw))

AnswerNotMenu(raws) ==
    /\ Waiting("_build_not", "prompt")
    /\ \E raw \in raws : Becomes(answer_not(Reading(raw), raw))

AnswerOperator(raws) ==
    /\ Waiting("_build_single_condition", "operator")
    /\ \E raw \in raws : Becomes(answer_operator(Reading(raw), raw))

AnswerColumn(raws) ==
    /\ Waiting("_build_single_condition", "column")
    /\ \E raw \in raws : Becomes(answer_column(Reading(raw), raw))

AnswerValue(raws) ==
    /\ Waiting("_build_single_condition", "value")
    /\ \E raw \in raws : Becomes(answer_value(Reading(raw), raw))

AnswerComparison(raws) ==
    /\ Waiting("_prompt_word_count_value", "comparison")
    /\ \E raw \in raws : Becomes(answer_comparison(Reading(raw), raw))

AnswerNumber(raws) ==
    /\ Waiting("_prompt_word_count_value", "number")
    /\ \E raw \in raws : Becomes(answer_number(Reading(raw), raw))

\* What the user types in BuildSpec: at each menu every choice it offers, one
\* number it does not offer and one answer that is no number; among the
\* operators one without a value, one with a typed value and word_count.
MenuAnswers == {<<"0">>, <<"1">>, <<"2">>, <<"3">>, <<"4">>, <<"5">>, <<"x">>}
NotAnswers == {<<"0">>, <<"1">>, <<"2">>, <<"3">>, <<"4">>, <<"x">>}
OperatorAnswers == {<<"0">>, <<"1">>, <<"2">>, <<" ", "5">>, <<"7">>, <<>>}
ColumnAnswers == {<<"1">>, <<"2">>, <<"3">>, <<"x">>}
ValueAnswers == {<<"a">>}
ComparisonAnswers == {<<"1">>, <<"4">>, <<"x">>}
NumberAnswers == {<<" ", "-", "1">>, <<"x">>}

BuildColumns == <<"Name", "Age">>

BuildInit == InitWith({[Name |-> <<"a">>]})

BuildNext ==
    \/ CallBuildExpression(BuildColumns, BOOLEAN)
    \/ AnswerGroupMenu(MenuAnswers, MaxBuilt)
    \/ AnswerNotMenu(NotAnswers)
    \/ AnswerOperator(OperatorAnswers)
    \/ AnswerColumn(ColumnAnswers)
    \/ AnswerValue(ValueAnswers)
    \/ AnswerComparison(ComparisonAnswers)
    \/ AnswerNumber(NumberAnswers)

BuildSpec == BuildInit /\ [][BuildNext]_vars

-----------------------------------------------------------------------------
(* Properties of the builder (BuildSpec).                                  *)

Returned == result # NotReturned

\* the events of a step's trace that are returns of fn
ReturnsOf(events, fn) ==
    {k \in 1..Len(events) : events[k].ev = "return" /\ events[k].fn = fn}

\* C11: whatever the user typed, what build_expression returns is an AndExpr,
\* and it is the AndExpr of the items the top-level group had accepted when
\* the user finished, the one without children when it had accepted none.
C11_ReturnsAndExpr ==
    [][Returned' =>
          /\ result'.kind = "AndExpr"
          /\ stack' = <<>>
          /\ ~Returned => /\ Len(stack) = 1
                          /\ result' = AndExpr(stack[1].children)]_vars

\* the user finished at once, and build_expression returned the empty AndExpr
C11_Witness ==
    /\ result = AndExpr(<<>>)
    /\ trace[1].raw = <<"0">>

\* the frames of a stack that are groups in progress
GroupFrames(frames) ==
    {k \in 1..Len(frames) : frames[k].fn = "_build_group"}

\* every node of every group in progress and of the tree returned
InBuild ==
    UNION {Nodes(group_node(stack[k])) : k \in GroupFrames(stack)}
    \cup (IF Returned THEN Nodes(result) ELSE {})

EmptyGroup(expr) == IsGroup(expr) /\ expr.children = <<>>

\* the answer a step has read
Answered(raw_trace) == choice_of(raw_trace[1].raw)

\* the step closes, by 0, a group that accepted nothing
ClosesEmpty(n) ==
    /\ Waiting("_build_group", "prompt")
    /\ Len(stack) = n
    /\ stack[n].children = <<>>
    /\ Answered(trace').exc = ""
    /\ Answered(trace').num = 0

\* C12: no children list of a group, in progress or returned, ever holds an
\* AndExpr or OrExpr without children, and no NotExpr holds one either, so
\* that in the tree returned only the root can be without children; the step
\* that closes a nested group that accepted nothing leaves the children list
\* of every group still open exactly as it was.
C12_NoEmptySubGroup ==
    [][/\ \A node \in InBuild' :
            /\ IsGroup(node) =>
                 \A k \in 1..Len(node.children) : ~EmptyGroup(node.children[k])
            /\ node.kind = "NotExpr" => ~EmptyGroup(node.child)
       /\ \A n \in 2..Len(stack) :
            ClosesEmpty(n) =>
                \A k \in GroupFrames(stack') :
                    stack'[k].children = stack[k].children]_vars

\* a nested group was closed empty and discarded under a parent that had
\* already accepted an item
C12_Witness ==
    /\ Len(trace) > 2
    /\ trace[3] = printed("Empty sub-group discarded.")
    /\ Waiting("_build_group", "prompt")
    /\ stack[Len(stack)].children # <<>>

\* an operand _build_not may wrap: a Condition, or a group with a child
Built(expr) ==
    \/ expr.kind = "Condition"
    \/ IsGroup(expr) /\ expr.children # <<>>

\* the event before the k-th of a step is the return of a built operand
OperandBuilt(events, k) ==
    /\ k > 1
    /\ events[k - 1].ev = "return"
    /\ events[k - 1].fn \in {"_build_single_condition", "_build_group"}
    /\ Built(events[k - 1].value)

\* C13: _build_not returns a NotExpr only over the operand its call has just
\* built, a Condition or a group with a child, and the group above appends
\* exactly that NotExpr; in every other case (0, a choice that is no number
\* or not on the menu, a single condition that failed, a negated group left
\* empty) it returns None and no group still open changes its children list.
\* So the child of every NotExpr held is a Condition or a non-empty group.
C13_NotOnlyOverBuiltOperand ==
    [][/\ \A node \in InBuild' : node.kind = "NotExpr" => Built(node.child)
       /\ \A k \in ReturnsOf(trace', "_build_not") :
            LET negated == trace'[k].value
            IN  IF OperandBuilt(trace', k)
                THEN /\ negated = NotExpr(trace'[k - 1].value)
                     /\ stack'[Len(stack')].children =
                            Append(stack[Len(stack')].children, negated)
                ELSE /\ negated = NoExpr
                     /\ \A j \in GroupFrames(stack') :
                            stack'[j].children = stack[j].children
       /\ Waiting("_build_not", "prompt") =>
            \/ ReturnsOf(trace', "_build_not") # {}
            \/ Answered(trace').exc = "" /\ Answered(trace').num \in 1..3]_vars

\* a NotExpr over a group has just been appended
C13_Witness ==
    /\ Waiting("_build_group", "prompt")
    /\ \E k \in ReturnsOf(trace, "_build_not") :
         /\ trace[k].value # NoExpr
         /\ IsGroup(trace[k].value.child)
         /\ stack[Len(stack)].children = <<trace[k].value>>

\* a negated group was left empty and the NOT was dropped
C13_Dropped ==
    /\ Waiting("_build_group", "prompt")
    /\ \E k \in ReturnsOf(trace, "_build_not") :
         /\ trace[k].value = NoExpr
         /\ trace[k - 1] = printed("Empty group - NOT discarded.")

\* answer is a mistake at the prompt frame waits at: no number, or a number
\* the prompt does not offer
Mistaken(frame, answer) ==
    /\ frame.pc \in {"prompt", "operator", "column", "comparison", "number"}
    /\ \/ answer.exc # ""
       \/ frame.fn = "_build_group" /\ answer.num \notin 0..4
       \/ frame.fn = "_build_not" /\ answer.num \notin 0..3
       \/ frame.pc = "operator" /\ answer.num \notin 1..Len(OPERATORS)
       \/ frame.pc = "column" /\ answer.num \notin 1..Len(args.columns)
       \/ frame.pc = "comparison"
          /\ answer.num \notin 1..Len(WORD_COUNT_COMPARISONS)

\* the innermost group in progress
InnermostGroup(frames) ==
    CHOOSE g \in GroupFrames(frames) : \A k \in GroupFrames(frames) : k <= g

\* C14: a mistaken answer at any prompt (no number; an operator, column,
\* comparison or menu choice that is not offered) ends the turn with nothing
\* committed: the innermost group in progress is back at its own menu, the
\* last thing printed, with its children list and the frames of all the
\* groups around it exactly as before, and build_expression has neither
\* returned nor failed.
C14_NothingCommitted ==
    [][stack # <<>> /\ Mistaken(stack[Len(stack)], Answered(trace')) =>
          LET g == InnermostGroup(stack)
          IN  /\ stack' = [k \in 1..g |->
                              IF k = g THEN [stack[g] EXCEPT !.pc = "prompt"]
                              ELSE stack[k]]
              /\ result' = result
              /\ ~Returned'
              /\ trace'[Len(trace')].ev = "menu"
              /\ trace'[Len(trace')].fn = "_build_group"]_vars

\* a column number out of range, inside a sub-group, under a top-level group
\* that had accepted an item: the single condition failed, the sub-group asks
\* again
C14_Witness ==
    /\ Len(stack) = 2
    /\ Waiting("_build_group", "prompt")
    /\ stack[1].children # <<>>
    /\ trace[1] = [ev |-> "input", raw |-> <<"3">>]
    /\ trace[2] = printed("Invalid selection.")
    /\ ReturnsOf(trace, "_build_single_condition") # {}

\* new is old, or old with one more item at its end
SameOrOneMore(old, new) ==
    \/ new = old
    \/ Len(new) = Len(old) + 1 /\ SubSeq(new, 1, Len(old)) = old

\* the step answers 0 at the menu of the group on top
ClosesGroup ==
    /\ Waiting("_build_group", "prompt")
    /\ Answered(trace').exc = ""
    /\ Answered(trace').num = 0

\* C20: 0 at a group menu closes the innermost group in progress and no
\* other: that one _build_group returns, an AndExpr for "and" and an OrExpr
\* for "or", over its children list, which holds the items accepted in it in
\* the order of acceptance (a children list only ever grows by one item at
\* its end, and starts empty).  The top-level group returns it to the caller
\* of build_expression; below that, the next group out is at its menu, its
\* earlier children unchanged and followed by the node closed (wrapped in its
\* NotExpr if a NOT asked for it) unless that node is empty, and the groups
\* further out are untouched.
C20_ZeroClosesInnermost ==
    [][/\ \A k \in GroupFrames(stack') :
            IF k <= Len(stack)
            THEN SameOrOneMore(stack[k].children, stack'[k].children)
            ELSE stack'[k].children = <<>>
       /\ ClosesGroup =>
            LET n == Len(stack)
                closed == stack[n]
                node == trace'[2].value
            IN  /\ ReturnsOf(trace', "_build_group") = {2}
                /\ node.kind = (IF closed.group_type = "and"
                                THEN "AndExpr" ELSE "OrExpr")
                /\ node.children = closed.children
                /\ IF n = 1
                   THEN stack' = <<>> /\ result' = node
                   ELSE LET g == InnermostGroup(SubSeq(stack, 1, n - 1))
                            old == stack[g].children
                        IN  /\ ~Returned'
                            /\ Len(stack') = g
                            /\ stack'[g].pc = "prompt"
                            /\ \A k \in 1..(g - 1) : stack'[k] = stack[k]
                            /\ stack'[g].children =
                                  IF node.children = <<>> THEN old
                                  ELSE IF g = n - 1 THEN Append(old, node)
                                  ELSE Append(old, NotExpr(node))]_vars

\* an OR sub-group that had accepted an item was closed under a top-level
\* group that had accepted one
C20_Witness ==
    /\ Len(stack) = 1
    /\ Len(trace) > 1
    /\ trace[2].ev = "return"
    /\ trace[2].fn = "_build_group"
    /\ trace[2].value.kind = "OrExpr"
    /\ Len(trace[2].value.children) = 1
    /\ stack[1].children = <<stack[1].children[1], trace[2].value>>

-----------------------------------------------------------------------------
(* format_condition and format_expression.  The str they return is the     *)
(* sequence of its characters, line breaks included.                       *)

\* the characters of the names the model uses for columns and operators
chars(name) ==
    CASE name = "Name" -> <<"N", "a", "m", "e">>
      [] name = "Age" -> <<"A", "g", "e">>
      [] name = "Full\nName" -> <<"F", "u", "l", "l", "\n", "N", "a", "m",
          "e">>
      [] name = "not_empty" -> <<"n", "o", "t", "_", "e", "m", "p", "t", "y">>
      [] name = "equals" -> <<"e", "q", "u", "a", "l", "s">>
      [] name = "not_equals" -> <<"n", "o", "t", "_", "e", "q", "u", "a",
          "l", "s">>
      [] name = "contains" -> <<"c", "o", "n", "t", "a", "i", "n", "s">>
      [] name = "word_count" -> <<"w", "o", "r", "d", "_", "c", "o", "u",
          "n", "t">>
      [] name = "alpha_only" -> <<"a", "l", "p", "h", "a", "_", "o", "n",
          "l", "y">>
      [] name = "starts_with" -> <<"s", "t", "a", "r", "t", "s", "_", "w",
          "i", "t", "h">>

\* str(value) inside an f-string
py_str(value) == IF value = None THEN <<"N", "o", "n", "e">> ELSE value

quoted(s) == <<"\"">> \o s \o <<"\"">>

\* {"gt": ">", "lt": "<", "eq": "="}.get(cmp_op, cmp_op)
sym_of(cmp_op) ==
    IF cmp_op = gt THEN <<">">>
    ELSE IF cmp_op = lt THEN <<"<">>
    ELSE IF cmp_op = eq THEN <<"=">>
    ELSE cmp_op

format_condition(cond) ==
    LET col == quoted(chars(cond.input_col))
    IN  IF cond.operator = "not_empty"
        THEN col \o <<" ", "i", "s", " ", "n", "o", "t", " ", "e", "m", "p",
            "t", "y">>
        ELSE IF cond.operator = "equals"
        THEN col \o <<" ", "e", "q", "u", "a", "l", "s",
            " ">> \o quoted(py_str(cond.value))
        ELSE IF cond.operator = "not_equals"
        THEN col \o <<" ", "d", "o", "e", "s", " ", "n", "o", "t", " ", "e",
            "q", "u", "a", "l", " ">> \o quoted(py_str(cond.value))
        ELSE IF cond.operator = "contains"
        THEN col \o <<" ", "c", "o", "n", "t", "a", "i", "n", "s",
            " ">> \o quoted(py_str(cond.value))
        ELSE IF cond.operator = "word_count"
        THEN LET parts == split_once(value_or_empty(cond.value), ":")
                 word_count == <<" ", "w", "o", "r", "d", " ", "c", "o", "u",
                     "n", "t", " ">>
             IN  IF Len(parts) = 2
                 THEN col \o word_count \o sym_of(parts[1]) \o <<" ">>
                          \o parts[2]
                 ELSE col \o word_count \o py_str(cond.value)
        ELSE IF cond.operator = "alpha_only"
        THEN col \o <<" ", "i", "s", " ", "a", "l", "p", "h", "a", "-", "o",
            "n", "l", "y">>
        ELSE col \o <<" ">> \o chars(cond.operator) \o <<" ">>
                 \o quoted(py_str(cond.value))

\* "  " * depth
RECURSIVE indent_of(_)
indent_of(depth) ==
    IF depth = 0 THEN <<>> ELSE <<" ", " ">> \o indent_of(depth - 1)

\* "\n".join(lines)
RECURSIVE join_lines(_)
join_lines(lines) ==
    IF lines = <<>> THEN <<>>
    ELSE IF Len(lines) = 1 THEN lines[1]
    ELSE lines[1] \o <<"\n">> \o join_lines(Tail(lines))

RECURSIVE format_expression(_, _)
format_expression(expr, depth) ==
    LET indent == indent_of(depth)
        below(children) ==
            [k \in 1..Len(children) |->
                format_expression(children[k], depth + 1)]
    IN  IF expr.kind = "Condition"
        THEN indent \o format_condition(expr)
        ELSE IF expr.kind = "AndExpr"
        THEN IF expr.children = <<>>
             THEN indent \o <<"A", "L", "L", " ", "o", "f", ":", " ", "(",
                 "e", "m", "p", "t", "y", ")">>
             ELSE join_lines(<<indent \o <<"A", "L", "L", " ", "o", "f",
                 ":">>>> \o below(expr.children))
        ELSE IF expr.kind = "OrExpr"
        THEN IF expr.children = <<>>
             THEN indent \o <<"A", "N", "Y", " ", "o", "f", ":", " ", "(",
                 "e", "m", "p", "t", "y", ")">>
             ELSE join_lines(<<indent \o <<"A", "N", "Y", " ", "o", "f",
                 ":">>>> \o below(expr.children))
        ELSE IF expr.kind = "NotExpr"
        THEN join_lines(<<indent \o <<"N", "O", "T", ":">>,
                          format_expression(expr.child, depth + 1)>>)
        ELSE indent \o <<"(", "u", "n", "k", "n", "o", "w", "n", " ", "e",
            "x", "p", "r", "e", "s", "s", "i", "o", "n", ")">>

\* format_expression(pending[i])
Format(i) ==
    /\ display' = [expr |-> pending[i],
                   text |-> format_expression(pending[i], 0)]
    /\ UNCHANGED <<evalVars, flat, beyondEval>>

FormatAny == \E i \in 1..Len(pending) : Format(i)

\* Trees over leaves that take every branch of format_condition, one of them
\* on a column whose name, read from a quoted header field, has a line break.
FormatLeaves ==
    {Condition("Name", "not_empty", None),
     Condition("Name", "equals", <<"a">>),
     Condition("Age", "not_equals", <<>>),
     Condition("Name", "contains", None),
     Condition("Name", "word_count", gt \o colon \o <<"1">>),
     Condition("Name", "word_count", abc),
     Condition("Age", "alpha_only", None),
     Condition("Name", "starts_with", <<"a">>),
     Condition("Full\nName", "not_empty", None)}

FormatInit == InitWith(TreeRows)

FormatNext ==
    \/ NewCondition(FormatLeaves, MaxNodes)
    \/ NewUnrecognized
    \/ NewAndExpr
    \/ NewOrExpr
    \/ NewNotExpr
    \/ FormatAny

FormatSpec == FormatInit /\ [][FormatNext]_vars

-----------------------------------------------------------------------------
(* Properties of format_expression (FormatSpec).                           *)

Formatted == display # NotFormatted

\* the lines of a text: what lies between its line breaks
RECURSIVE lines_of(_, _)
lines_of(text, line) ==
    IF text = <<>> THEN <<line>>
    ELSE IF Head(text) = "\n" THEN <<line>> \o lines_of(Tail(text), <<>>)
    ELSE lines_of(Tail(text), Append(line, Head(text)))

\* the nodes of a tree with their depths, a parent before its children and
\* the children in their order
RECURSIVE Preorder(_, _)
RECURSIVE PreorderAll(_, _)
Preorder(expr, depth) ==
    <<[node |-> expr, depth |-> depth]>> \o
    (IF IsGroup(expr) THEN PreorderAll(expr.children, depth + 1)
     ELSE IF expr.kind = "NotExpr" THEN Preorder(expr.child, depth + 1)
     ELSE <<>>)
PreorderAll(exprs, depth) ==
    IF exprs = <<>> THEN <<>>
    ELSE Preorder(Head(exprs), depth) \o PreorderAll(Tail(exprs), depth)

StartsWith(s, prefix) ==
    Len(prefix) <= Len(s) /\ SubSeq(s, 1, Len(prefix)) = prefix

EndsWith(s, suffix) ==
    Len(suffix) <= Len(s)
    /\ SubSeq(s, Len(s) - Len(suffix) + 1, Len(s)) = suffix

\* line is the line of node at depth: 2 * depth spaces, then the node's text
LineOf(line, node, depth) ==
    LET margin == [k \in 1..(2 * depth) |-> " "]
        body == SubSeq(line, 2 * depth + 1, Len(line))
        label == IF node.kind = "AndExpr" THEN <<"A", "L", "L", " ", "o",
            "f", ":">>
                 ELSE IF node.kind = "OrExpr" THEN <<"A", "N", "Y", " ", "o",
                     "f", ":">>
                 ELSE <<"N", "O", "T", ":">>
    IN  /\ StartsWith(line, margin)
        /\ body # <<>>
        /\ Head(body) # " "
        /\ IsGroup(node) /\ node.children # <<>> => body = label
        /\ IsGroup(node) /\ node.children = <<>> =>
               StartsWith(body, label) /\ EndsWith(body, <<"(", "e", "m",
                   "p", "t", "y", ")">>)
        /\ node.kind = "NotExpr" => body = label
        /\ node.kind = "Condition" => body = format_condition(node)

\* the text has one line for each node, in order, each the line of its node
OneLinePerNode(text, expr) ==
    LET lines == lines_of(text, <<>>)
        nodes == Preorder(expr, 0)
    IN  /\ Len(lines) = Len(nodes)
        /\ \A k \in 1..Len(nodes) :
               LineOf(lines[k], nodes[k].node, nodes[k].depth)

\* C15: format_expression renders every tree with one line per node, the line
\* of a node at depth d indented by 2 * d spaces, a parent's line followed by
\* the lines of its children in their order, "ALL of:" for an AndExpr,
\* "ANY of:" for an OrExpr, "NOT:" for a NotExpr, and one line ending in
\* "(empty)" for a group without children.
C15_OneLinePerNode ==
    Formatted => OneLinePerNode(display.text, display.expr)

\* a tree with a condition on the column whose name has a line break has been
\* formatted
C15_Witness ==
    /\ Formatted
    /\ display.expr.kind = "AndExpr"
    /\ Len(display.expr.children) = 2
    /\ display.expr.children[2] = Condition("Full\nName", "not_empty", None)

\* no column name and no value of the tree has a line break
RECURSIVE OnOneLine(_)
OnOneLine(s) == s = <<>> \/ (Head(s) # "\n" /\ OnOneLine(Tail(s)))

NoLineBreaks(expr) ==
    \A node \in Nodes(expr) :
        node.kind = "Condition" =>
            /\ OnOneLine(chars(node.input_col))
            /\ OnOneLine(py_str(node.value))

\* what does hold: the rendering has one line per node whenever no column
\* name and no value of the tree has a line break in it
FormatsTreesWithoutLineBreaks ==
    Formatted /\ NoLineBreaks(display.expr) =>
        OneLinePerNode(display.text, display.expr)

-----------------------------------------------------------------------------
(* The scenarios of the specification: a row with a padded name and an     *)
(* age, and four expressions held and evaluated against it.                *)

John == <<"J", "o", "h", "n">>
Jane == <<"J", "a", "n", "e">>

ScenarioRow == [Name |-> <<" ", "J", "o", "h", "n", " ", "D", "o", "e",
    " ">>, Age |-> <<"3", "0">>]

ScenarioRows ==
    {[Name |-> name, Age |-> age] :
        name \in {<<" ", "J", "o", "h", "n", " ", "D", "o", "e", " ">>,
            <<"J", "o", "h", "n", " ", "D", "o", "e">>, <<" ", "J", "a", "n",
                "e", " ">>, John, NaN},
        age \in {<<"3", "0">>, <<>>, <<"a", " ", "b">>}}

\* the four expressions of a scenario
Suite(contained, words, alpha_col, other) ==
    <<Condition("Name", "contains", contained),
      Condition("Name", "word_count", eq \o colon \o int_str(words)),
      Condition(alpha_col, "alpha_only", None),
      AndExpr(<<Condition("Age", "not_empty", None),
                NotExpr(Condition("Name", "equals", other))>>)>>

\* the caller holds the four expressions of one scenario
NewSuite ==
    /\ pending = <<>>
    /\ \E contained \in {John, Jane}, words \in 1..2, alpha_col \in Columns,
          other \in {John, Jane} :
         Hold(Suite(contained, words, alpha_col, other))

ScenarioInit == InitWith(ScenarioRows)

ScenarioNext ==
    \/ NewSuite
    \/ EvaluateAny(Len(pending))

ScenarioSpec == ScenarioInit /\ [][ScenarioNext]_vars

\* C17: on the row {Name: " John Doe ", Age: "30"}, Name contains "John" is
\* true, Name word_count "eq:2" is true, Age alpha_only is false, and
\* And([Age not_empty, Not(Name equals "Jane")]) is true.
C17_Scenarios ==
    row = ScenarioRow /\ pending = Suite(John, 2, "Age", Jane) =>
        \A i \in Evaluated :
            verdicts[i] = Return(<<TRUE, TRUE, FALSE, TRUE>>[i])

\* the four expressions have all been evaluated against the row
C17_Witness ==
    /\ row = ScenarioRow
    /\ pending = Suite(John, 2, "Age", Jane)
    /\ Evaluated = 1..4

-----------------------------------------------------------------------------
(* The session (src/csv_me/session.py) and its log (src/csv_me/logger.py). *)
(*                                                                         *)
(* session is the Session object of the running process, disk the output   *)
(* directory: the names of its files, its manifest, and its log, a header  *)
(* followed by the entries written.  resumed is the outcome of the last    *)
(* call of Session.from_output_dir.  The clock is not modelled: entries    *)
(* carry no timestamp, and the directory of a session is a new one.        *)

MaxSteps == 2
MaxLog == 4

Header == [header |-> TRUE]

\* f"{n:02d}"
two_digits(n) == IF n < 10 THEN <<"0">> \o nat_str(n) ELSE nat_str(n)

\* label.replace(" ", "_").lower(), over the characters the labels use
safe_label(label) ==
    [k \in 1..Len(label) |->
        IF label[k] = " " THEN "_"
        ELSE IF label[k] = "S" THEN "s"
        ELSE label[k]]

\* f"{self.step:02d}_{safe_label}.csv"
step_filename(step, label) ==
    two_digits(step) \o <<"_">> \o safe_label(label) \o <<".", "c", "s", "v">>

\* f"00_original_{self.original_path.name}"
initial_copy(name) == <<"0", "0", "_", "o", "r", "i", "g", "i", "n", "a",
    "l", "_">> \o name

\* TransformationLogger(output_dir, **kwargs): __init__ takes output_dir and
\* nothing else, opens the log for writing and writes the header
logger_init_accepting(d, kwargs) ==
    [exc |-> "", disk |-> [d EXCEPT !.log = <<Header>>]]

logger_init(d, kwargs) ==
    IF kwargs # {}
    THEN [exc |-> "TypeError", disk |-> d]
    ELSE [exc |-> "", disk |-> [d EXCEPT !.log = <<Header>>]]

\* TransformationLogger.log(action, details)
logger_log(d, action, details) ==
    [d EXCEPT !.log = Append(@, [action |-> action, details |-> details])]

\* Session._write_manifest
write_manifest(d, s) ==
    [d EXCEPT !.manifest =
        [written |-> TRUE, original_path |-> s.original_path,
         step |-> s.step, current_file |-> s.current_file,
         history |-> s.history]]

\* Session(input_path), for a path that names a file with the given name
\* if it exists
session_init(d, path) ==
    IF ~path.exists THEN [exc |-> "FileNotFoundError", session |-> NoSession,
                          disk |-> d]
    ELSE IF ~EndsWith(path.name, <<".", "c", "s", "v">>)
    THEN [exc |-> "ValueError", session |-> NoSession, disk |-> d]
    ELSE LET made == [d EXCEPT !.exists = TRUE]
             logged == logger_init(made, {}).disk
             copy == initial_copy(path.name)
             s == [alive |-> TRUE, original_path |-> path.name, step |-> 0,
                   current_file |-> copy, history |-> <<copy>>]
             copied == [logged EXCEPT !.files = @ \cup {copy}]
         IN  [exc |-> "", session |-> s,
              disk |-> write_manifest(
                           logger_log(copied, "Session started", "Loaded"),
                           s)]

\* a save_step that does not count the step
save_step_uncounted(d, s, label) ==
    LET out_path == step_filename(s.step, label)
        saved == [s EXCEPT !.current_file = out_path,
                           !.history = Append(@, out_path)]
    IN  [session |-> saved,
         disk |-> write_manifest([d EXCEPT !.files = @ \cup {out_path}],
                                 saved)]

\* Session.save_step(df, label)
save_step(d, s, label) ==
    LET step == s.step + 1
        out_path == step_filename(step, label)
        saved == [s EXCEPT !.step = step, !.current_file = out_path,
                           !.history = Append(@, out_path)]
    IN  [session |-> saved,
         disk |-> write_manifest([d EXCEPT !.files = @ \cup {out_path}],
                                 saved)]

\* Session.from_output_dir(path), for the directory d
from_output_dir(d) ==
    IF ~d.manifest.written
    THEN [exc |-> "FileNotFoundError", session |-> NoSession, disk |-> d]
    ELSE IF d.manifest.current_file \notin d.files
    THEN [exc |-> "ValueError", session |-> NoSession, disk |-> d]
    ELSE LET s == [alive |-> TRUE,
                   original_path |-> d.manifest.original_path,
                   step |-> d.manifest.step,
                   current_file |-> d.manifest.current_file,
                   history |-> d.manifest.history]
             logger == logger_init(d, {"append"})
         IN  IF logger.exc # ""
             THEN [exc |-> logger.exc, session |-> NoSession, disk |-> d]
             ELSE [exc |-> "", session |-> s,
                   disk |-> logger_log(logger.disk, "Session resumed",
                                       "Resumed")]

\* the process constructs its Session
StartSession(paths) ==
    /\ ~session.alive
    /\ ~disk.exists
    /\ \E path \in paths :
         LET started == session_init(disk, path)
         IN  /\ session' = started.session
             /\ disk' = started.disk
    /\ UNCHANGED <<resumed, beyondSession>>

\* a feature saves its result
SaveStep(labels) ==
    /\ session.alive
    /\ session.step < MaxSteps
    /\ \E label \in labels :
         LET saved == save_step(disk, session, label)
         IN  /\ session' = saved.session
             /\ disk' = saved.disk
    /\ UNCHANGED <<resumed, beyondSession>>

\* a feature writes a log entry
Log(actions) ==
    /\ session.alive
    /\ Len(disk.log) < MaxLog
    /\ \E action \in actions : disk' = logger_log(disk, action, "")
    /\ UNCHANGED <<session, resumed, beyondSession>>

\* the process ends
Quit ==
    /\ session.alive
    /\ session' = NoSession
    /\ UNCHANGED <<disk, resumed, beyondSession>>

\* a new process is given the output directory: Session.from_output_dir
Resume ==
    /\ ~session.alive
    /\ disk.exists
    /\ LET outcome == from_output_dir(disk)
       IN  /\ resumed' = [exc |-> outcome.exc, tried |-> TRUE]
           /\ session' = outcome.session
           /\ disk' = outcome.disk
    /\ UNCHANGED beyondSession

InputPaths ==
    {[name |-> <<"d", ".", "c", "s", "v">>, exists |-> TRUE],
     [name |-> <<"d", ".", "c", "s", "v">>, exists |-> FALSE],
     [name |-> <<"d", ".", "t", "x", "t">>, exists |-> TRUE]}

StepLabels == {<<"m", "a", "n", "u", "a", "l", "_", "e", "d", "i", "t">>,
    <<"S", "o", "r", "t", " ", "a">>}

LogActions == {"Manual Edit", "Sort"}

SessionInit == InitWith({[Name |-> <<"a">>]})

SessionNext ==
    \/ StartSession(InputPaths)
    \/ SaveStep(StepLabels)
    \/ Log(LogActions)
    \/ Quit
    \/ Resume

SessionSpec == SessionInit /\ [][SessionNext]_vars

-----------------------------------------------------------------------------
(* Properties of the session and its log (SessionSpec).                    *)

C19_Resumable ==
    resumed.tried =>
        /\ resumed.exc = ""
        /\ session.alive
        /\ session.step = disk.manifest.step
        /\ session.current_file = disk.manifest.current_file
        /\ session.history = disk.manifest.history

\* a process has tried to resume from a directory with the manifest of a
\* session that saved a step, the file of that step in place
C19_Witness ==
    /\ resumed.tried
    /\ disk.manifest.written
    /\ disk.manifest.step = 1
    /\ disk.manifest.current_file \in disk.files

-----------------------------------------------------------------------------
(* The Manual Edit feature: run(session) of features/manual_edit.py.       *)
(*                                                                         *)
(* edit is the frame of run: the prompt it waits at (pc), the table read   *)
(* (df), the expression built (expr), the row the loop is at (idx), the    *)
(* rows given to evaluate_expression so far (evaluated), and the counts    *)
(* the loop keeps.  What the editor does to the values of a row is not     *)
(* modelled, only whether the row was skipped, removed or edited.          *)

AtMenu ==
    [pc |-> "menu", df |-> <<>>, expr |-> NoExpr, idx |-> 0,
     evaluated |-> <<>>, edited_count |-> 0, added |-> 0, removed |-> <<>>,
     backup |-> FALSE, reported |-> FALSE]

\* f"{next_step:02d}_manual_edit_edited.txt"
report_name(s) == two_digits(s.step + 1) \o <<"_", "m", "a", "n", "u", "a",
    "l", "_", "e", "d", "i", "t", "_", "e", "d", "i", "t", "e", "d", ".",
        "t", "x", "t">>

backup_name == <<"r", "e", "m", "o", "v", "e", "d", "_", "r", "o", "w", "s",
    ".", "c", "s", "v">>

\* run, after build_expression has returned expr, taken to be non-empty
after_build_unchecked(f, expr) == [f EXCEPT !.pc = "proceed", !.expr = expr]

\* run, after build_expression has returned expr (lines 328-341)
after_build(f, expr) ==
    IF expr.children = <<>>
    THEN [f EXCEPT !.pc = "no_conditions", !.expr = expr]
    ELSE [f EXCEPT !.pc = "proceed", !.expr = expr]

\* the loop over the rows, from row idx to the next row that matches
\* (lines 366-380) or past the last row
RECURSIVE scan(_)
scan(f) ==
    IF f.idx > Len(f.df) THEN [f EXCEPT !.pc = "after_loop"]
    ELSE LET seen == [f EXCEPT !.evaluated = Append(@, f.idx)]
         IN  IF evaluate_expression(f.df[f.idx], f.expr).value
             THEN [seen EXCEPT !.pc = "editor"]
             ELSE scan([seen EXCEPT !.idx = @ + 1])

\* run after the loop (lines 476-508)
after_loop(f, d) ==
    LET backed == IF f.backup /\ f.removed # <<>>
                  THEN [d EXCEPT !.files = @ \cup {backup_name}]
                  ELSE d
    IN  [edit |-> IF f.edited_count = 0 /\ f.added = 0 /\ f.removed = <<>>
                  THEN [f EXCEPT !.pc = "nothing_edited"]
                  ELSE [f EXCEPT !.pc = "save"],
         disk |-> backed]

\* the loop goes on from the frame f
loop_on(f, d) ==
    LET g == scan(f)
    IN  IF g.pc = "editor" THEN [edit |-> g, disk |-> d] ELSE after_loop(g, d)

\* _init_edit_report at the first change reported
report(f, d, s) ==
    [edit |-> [f EXCEPT !.reported = TRUE],
     disk |-> [d EXCEPT !.files = @ \cup {report_name(s)}]]

Goes(outcome) ==
    /\ edit' = outcome.edit
    /\ disk' = outcome.disk

\* the main menu calls run(session)
EnterManualEdit ==
    /\ session.alive
    /\ session.step < MaxSteps
    /\ edit = NotEditing
    /\ edit' = AtMenu
    /\ UNCHANGED <<evalVars, display, flat, removal, buildVars,
                   sessVars>>

\* the Manual Edit menu: 0 goes back, 1 reads the table and calls
\* build_expression (lines 308-328)
ManualEditMenu(tables) ==
    /\ edit.pc = "menu"
    /\ \/ /\ edit' = NotEditing
          /\ UNCHANGED buildVars
       \/ \E df \in tables :
            /\ edit' = [AtMenu EXCEPT !.pc = "building", !.df = df]
            /\ Runs(enter_build(<<"Name">>, TRUE))
    /\ UNCHANGED <<evalVars, display, flat, removal, sessVars>>

\* build_expression returns to run (lines 328-341)
BuildReturned ==
    /\ edit.pc = "building"
    /\ Returned
    /\ edit' = after_build(edit, result)
    /\ args' = NoArgs
    /\ stack' = <<>>
    /\ trace' = <<>>
    /\ result' = NotReturned
    /\ UNCHANGED <<evalVars, display, flat, removal, sessVars>>

\* Enter at "Press Enter to continue...": after "No conditions defined." and
\* after "No rows edited." the loop of run starts over, after "Done!" run
\* returns (lines 332-333, 495-496, 530-531)
PressEnter ==
    /\ edit.pc \in {"no_conditions", "nothing_edited", "done"}
    /\ edit' = IF edit.pc = "done" THEN NotEditing ELSE AtMenu
    /\ UNCHANGED <<evalVars, display, flat, removal, buildVars,
                   sessVars>>

\* "Proceed with search?" (lines 341-342)
ConfirmSearch ==
    /\ edit.pc = "proceed"
    /\ \E yes \in BOOLEAN :
         edit' = IF yes THEN [edit EXCEPT !.pc = "backup"] ELSE AtMenu
    /\ UNCHANGED <<evalVars, display, flat, removal, buildVars,
                   sessVars>>

\* "Back up removed rows to a separate file?", then the loop to the first
\* row that matches (lines 346-380)
ConfirmBackup ==
    /\ edit.pc = "backup"
    /\ \E yes \in BOOLEAN :
         Goes(loop_on([edit EXCEPT !.backup = yes, !.idx = 1], disk))
    /\ UNCHANGED <<evalVars, display, flat, removal, buildVars, session,
                   resumed>>

\* the editor closes on the row: skipped, removed, or edited with or without
\* a change (lines 378-446)
Editor ==
    /\ edit.pc = "editor"
    /\ \/ Goes([edit |-> [edit EXCEPT !.pc = "continue"], disk |-> disk])
       \/ LET removed == [edit EXCEPT !.pc = "continue",
                                      !.removed = Append(@, edit.idx)]
          IN  Goes(IF edit.reported THEN [edit |-> removed, disk |-> disk]
                   ELSE report(removed, disk, session))
       \/ \E changed \in BOOLEAN :
            LET edited == [edit EXCEPT !.pc = "add",
                                       !.edited_count = @ + 1]
            IN  Goes(IF changed /\ ~edit.reported
                     THEN report(edited, disk, session)
                     ELSE [edit |-> edited, disk |-> disk])
    /\ UNCHANGED <<evalVars, display, flat, removal, buildVars, session,
                   resumed>>

\* "Continue to next match?" after a row skipped or removed (386-390, 403-407)
ContinueToNext ==
    /\ edit.pc = "continue"
    /\ \E yes \in BOOLEAN :
         Goes(IF yes THEN loop_on([edit EXCEPT !.idx = @ + 1], disk)
              ELSE after_loop(edit, disk))
    /\ UNCHANGED <<evalVars, display, flat, removal, buildVars, session,
                   resumed>>

\* "Add a new row based on the original values?": no, or yes and the editor
\* cancelled, or yes and a row added; then the loop goes on (lines 448-474)
AddRow ==
    /\ edit.pc = "add"
    /\ \/ Goes(loop_on([edit EXCEPT !.idx = @ + 1], disk))
       \/ LET added == [edit EXCEPT !.idx = @ + 1, !.added = @ + 1]
              first == IF edit.reported
                       THEN [edit |-> added, disk |-> disk]
                       ELSE report(added, disk, session)
          IN  Goes(loop_on(first.edit, first.disk))
    /\ UNCHANGED <<evalVars, display, flat, removal, buildVars, session,
                   resumed>>

\* "Save changes?": no removes the report and starts over, yes saves the
\* step and writes the log entry (lines 508-520)
ConfirmSave ==
    /\ edit.pc = "save"
    /\ \/ /\ edit' = AtMenu
          /\ disk' = IF edit.reported
                     THEN [disk EXCEPT !.files = @ \ {report_name(session)}]
                     ELSE disk
          /\ UNCHANGED session
       \/ LET saved == save_step(disk, session, <<"m", "a", "n", "u", "a",
           "l", "_", "e", "d", "i", "t">>)
          IN  /\ session' = saved.session
              /\ disk' = logger_log(saved.disk, "Manual Edit", "Edited")
              /\ edit' = [edit EXCEPT !.pc = "done"]
    /\ UNCHANGED <<evalVars, display, flat, removal, buildVars, resumed>>

\* What the feature is given in ManualEditSpec: a session on a CSV file, a
\* table of one column and one or two rows, and a user who builds a flat
\* expression of conditions that take no value.
EditTables ==
    {<<[Name |-> <<"a">>]>>,
     <<[Name |-> NaN], [Name |-> <<"a">>]>>,
     <<[Name |-> <<"a">>], [Name |-> <<"1">>]>>}

ManualEditInit == InitWith({[Name |-> <<"a">>]})

ManualEditNext ==
    \/ StartSession({[name |-> <<"d", ".", "c", "s", "v">>, exists |-> TRUE]})
    \/ EnterManualEdit
    \/ ManualEditMenu(EditTables)
    \/ AnswerGroupMenu({<<"0">>, <<"1">>, <<"x">>}, MaxBuilt - 1)
    \/ AnswerOperator({<<"1">>, <<"6">>, <<"7">>})
    \/ AnswerColumn({<<"1">>, <<"2">>})
    \/ BuildReturned
    \/ PressEnter
    \/ ConfirmSearch
    \/ ConfirmBackup
    \/ Editor
    \/ ContinueToNext
    \/ AddRow
    \/ ConfirmSave

ManualEditSpec == ManualEditInit /\ [][ManualEditNext]_vars

-----------------------------------------------------------------------------
(* Manual Edit and the empty top-level And                                 *)

\* the expression run holds is a top-level And with no children
HoldsEmptyAnd(f) == f # NotEditing /\ f.expr = AndExpr(<<>>)

\* run holds an empty And only at "No conditions defined.", with no row
\* given to evaluate_expression, none offered, counted or reported
TreatedAsNoFilter(f) ==
    HoldsEmptyAnd(f) =>
        /\ f.pc = "no_conditions"
        /\ f.evaluated = <<>>
        /\ f.idx = 0
        /\ f.edited_count = 0 /\ f.added = 0 /\ f.removed = <<>>
        /\ ~f.reported

\* C16: when build_expression returns a top-level AndExpr with zero children
\* to the Manual Edit feature, the feature goes to "No conditions defined."
\* with no row evaluated or offered for editing, and from there back to the
\* Manual Edit menu; in both steps the session (step, history, current file)
\* and its directory (files, manifest, log) stay as they were, and the frame
\* never holds the empty And anywhere else.
C16_EmptyAndIsNoFilter ==
    [][/\ TreatedAsNoFilter(edit) /\ TreatedAsNoFilter(edit')
       /\ (edit.pc = "building" /\ Returned /\ result = AndExpr(<<>>)) =>
              /\ HoldsEmptyAnd(edit')
              /\ session' = session /\ disk' = disk
       /\ HoldsEmptyAnd(edit) =>
              /\ edit' = AtMenu
              /\ session' = session /\ disk' = disk]_vars

\* the feature is at "No conditions defined." holding the empty And, over a
\* table whose rows an empty And would all match
C16_Witness ==
    /\ edit # NotEditing
    /\ edit.pc = "no_conditions"
    /\ edit.expr = AndExpr(<<>>)
    /\ Len(edit.df) = 2
    /\ \A i \in 1..Len(edit.df) :
          evaluate_expression(edit.df[i], edit.expr).value
    /\ session.alive

-----------------------------------------------------------------------------
(* The single-condition sub-protocol after an invalid selection            *)

\* raw is no choice among 1..n: no number, or a number out of range
NoNumber(raw) == choice_of(raw).exc # ""
OutOfRange(raw, n) == ~NoNumber(raw) /\ choice_of(raw).num \notin 1..n

\* the step reads raw at the prompt pc of _build_single_condition
ReadsAt(pc, raw) ==
    /\ Waiting("_build_single_condition", pc)
    /\ trace'[1] = [ev |-> "input", raw |-> raw]

\* the prompt the builder waits at after the step
NextPrompt == [fn |-> stack'[Len(stack')].fn, pc |-> stack'[Len(stack')].pc]

\* C21 as claimed: after an out-of-range or non-numeric operator choice the
\* next prompt is again the operator selection, after an out-of-range column
\* index it is again the column selection, and build_expression has not
\* ended.
C21_RepromptsSameSelection ==
    [][\A raw \in OperatorAnswers \cup ColumnAnswers :
          /\ ReadsAt("operator", raw)
             /\ (NoNumber(raw) \/ OutOfRange(raw, Len(OPERATORS))) =>
                 /\ stack' # <<>> /\ ~Returned'
                 /\ NextPrompt = [fn |-> "_build_single_condition",
                                  pc |-> "operator"]
          /\ ReadsAt("column", raw) /\ OutOfRange(raw, Len(args.columns)) =>
                 /\ stack' # <<>> /\ ~Returned'
                 /\ NextPrompt = [fn |-> "_build_single_condition",
                                  pc |-> "column"]]_vars

\* C21, amended: after an out-of-range or non-numeric operator choice, and
\* after an out-of-range or non-numeric column index, _build_single_condition
\* returns None, the operator (and column) chosen so far are dropped, and the
\* next prompt is the menu of the innermost group in progress, whose children
\* list is as before; build_expression has neither ended nor failed.
C21_InvalidSelectionBackToGroupMenu ==
    [][\A raw \in OperatorAnswers \cup ColumnAnswers :
          \/ ReadsAt("operator", raw)
             /\ (NoNumber(raw) \/ OutOfRange(raw, Len(OPERATORS)))
          \/ ReadsAt("column", raw)
             /\ (NoNumber(raw) \/ OutOfRange(raw, Len(args.columns)))
          => LET g == InnermostGroup(stack)
             IN  /\ \E k \in 2..Len(trace') :
                       /\ trace'[k] =
                              returned("_build_single_condition", NoExpr)
                       /\ \A j \in 2..(k - 1) : trace'[j].ev = "print"
                 /\ ~Returned'
                 /\ Len(stack') = g
                 /\ NextPrompt = [fn |-> "_build_group", pc |-> "prompt"]
                 /\ stack'[g].children = stack[g].children
                 /\ trace'[Len(trace')].ev = "menu"
                 /\ trace'[Len(trace')].fn = "_build_group"]_vars

\* operator choice 7 was read in a group that had accepted an item; the
\* single condition returned None and the group is at its menu with that item
C21_Witness ==
    /\ Waiting("_build_group", "prompt")
    /\ Len(trace) > 2
    /\ trace[1] = [ev |-> "input", raw |-> <<"7">>]
    /\ trace[2] = printed("Invalid selection.")
    /\ trace[3] = returned("_build_single_condition", NoExpr)
    /\ stack[Len(stack)].children # <<>>

-----------------------------------------------------------------------------
(* word_count: an invalid comparison or number                             *)

\* the step reads raw at the prompt pc of _prompt_word_count_value
ReadsWordCount(pc, raw) ==
    /\ Waiting("_prompt_word_count_value", pc)
    /\ trace'[1] = [ev |-> "input", raw |-> raw]

\* C22: when the operator is word_count and the user gives a comparison
\* choice that is no number or not one of the three, or a number that int()
\* cannot parse, _prompt_word_count_value returns None and so does
\* _build_single_condition, whatever column was chosen: the step returns no
\* Condition, the children lists of all the groups in progress are as they
\* were, and the innermost of them is back at its menu.
C22_BadWordCountYieldsNothing ==
    [][\A raw \in ComparisonAnswers \cup NumberAnswers :
          \/ ReadsWordCount("comparison", raw)
             /\ (NoNumber(raw)
                 \/ OutOfRange(raw, Len(WORD_COUNT_COMPARISONS)))
          \/ ReadsWordCount("number", raw) /\ NoNumber(raw)
          => /\ stack[Len(stack) - 1].op = "word_count"
             /\ \E k \in 2..(Len(trace') - 1) :
                    /\ ReturnsOf(trace', "_prompt_word_count_value") = {k}
                    /\ trace'[k].value = None
                    /\ ReturnsOf(trace', "_build_single_condition") = {k + 1}
                    /\ trace'[k + 1].value = NoExpr
             /\ \A k \in ReturnsOf(trace', "_build_not") :
                    trace'[k].value = NoExpr
             /\ ReturnsOf(trace', "_build_group") = {}
             /\ Len(stack') = InnermostGroup(stack)
             /\ NextPrompt = [fn |-> "_build_group", pc |-> "prompt"]
             /\ \A k \in GroupFrames(stack') :
                    stack'[k].children = stack[k].children
             /\ ~Returned']_vars

\* "x" was given as the word count number in a group
\* that had accepted an item: nothing was added to it
C22_Witness ==
    /\ Waiting("_build_group", "prompt")
    /\ Len(trace) > 3
    /\ trace[1] = [ev |-> "input", raw |-> <<"x">>]
    /\ trace[2] = printed("Invalid number.")
    /\ trace[3] = returned("_prompt_word_count_value", None)
    /\ trace[4] = returned("_build_single_condition", NoExpr)
    /\ Len(stack[Len(stack)].children) = 1

-----------------------------------------------------------------------------
(* The conditions the builder makes                                        *)

\* value is "kind:n" as the evaluator reads it: one separator, a kind that
\* is gt, lt or eq before it, an integer after it
WellFormedCount(value) ==
    LET parts == split_once(value, ":")
    IN  /\ Len(parts) = 2
        /\ parts[1] \in {gt, lt, eq}
        /\ PyInt(parts[2]).exc = ""

WellFormed(cond, columns) ==
    /\ cond.operator \in {OPERATORS[i] : i \in 1..Len(OPERATORS)}
    /\ cond.input_col \in {columns[i] : i \in 1..Len(columns)}
    /\ cond.value = None <=> cond.operator \in {"not_empty", "alpha_only"}
    /\ cond.operator \in {"equals", "not_equals", "contains"} =>
          cond.value \in ValueAnswers
    /\ cond.operator = "word_count" =>
          /\ WellFormedCount(cond.value)
          /\ \A cell \in {NaN, <<"a">>, <<"a", " ", "b">>} :
                LET verdict == evaluate_single_condition(
                                   [Name |-> cell, Age |-> cell], cond)
                    count == IF cell = NaN THEN 0 ELSE Len(split(cell))
                    parts == split_once(cond.value, ":")
                    n == PyInt(parts[2]).num
                IN  verdict = Return(IF parts[1] = gt THEN count > n
                                     ELSE IF parts[1] = lt THEN count < n
                                     ELSE count = n)

\* the Conditions of the groups in progress and of the tree returned
ConditionsInBuild == {node \in InBuild : node.kind = "Condition"}

\* C23: every Condition the builder holds, in a group in progress or in the
\* tree build_expression returned, has one of the six operators, one of the
\* columns supplied, the value None exactly for not_empty and alpha_only,
\* for equals, not_equals and contains the string the user typed, and for
\* word_count a value "kind:n" with kind gt, lt or eq and n an
\* integer, on which the evaluator compares the count and never takes its
\* path for malformed values; the prompt for a value is reached only with
\* equals, not_equals or contains, the word-count prompts only with
\* word_count.
C23_ConditionsWellFormed ==
    /\ \A cond \in ConditionsInBuild : WellFormed(cond, args.columns)
    /\ \A k \in 1..Len(stack) :
          /\ stack[k].fn = "_build_single_condition"
             /\ stack[k].pc = "value" =>
                 stack[k].op \in {"equals", "not_equals", "contains"}
          /\ stack[k].fn = "_prompt_word_count_value" =>
                 stack[k - 1].op = "word_count"

\* build_expression has returned a tree with a word_count condition and a
\* condition without a value
C23_Witness ==
    /\ Returned
    /\ \E cond \in ConditionsInBuild : cond.operator = "word_count"
    /\ \E cond \in ConditionsInBuild : cond.operator = "not_empty"

-----------------------------------------------------------------------------
(* The refresh hook and the menus                                          *)
(*                                                                         *)
(* A step renders at most one menu, the last thing it does; the steps that *)
(* render none (a column chosen for an operator with a typed value, a      *)
(* comparison chosen) do not call the hook either.  So the hook is called  *)
(* between two consecutive menus exactly when the step that renders the    *)
(* later one calls it before rendering.                                    *)

\* the k-th event of the step is a menu of one of kinds, rendered with no
\* call of the hook before it in the step
Unrefreshed(k, kinds) ==
    /\ trace[k].ev = "menu"
    /\ trace[k].fn \in kinds
    /\ \A j \in 1..(k - 1) : trace[j].ev # "header_fn"

AllMenus ==
    {"_build_group", "_build_not", "operator", "column", "comparison"}

\* C24: when a refresh hook is supplied, every menu the builder renders
\* (group menu, NOT menu, operator list, column list, word-count comparison
\* list) is rendered after a call of the hook made since the menu before it.
C24_HookBeforeEachMenu ==
    args.header_fn =>
        \A k \in 1..Len(trace) : ~Unrefreshed(k, AllMenus)

\* with a hook supplied, the operator list has been rendered right after the
\* answer 1 at the group menu, the hook not called in between
C24_Witness ==
    /\ args.header_fn
    /\ Waiting("_build_single_condition", "operator")
    /\ trace = <<[ev |-> "input", raw |-> <<"1">>], menu("operator")>>

\* with a hook supplied, the group menu, the NOT menu and the column list
\* are rendered after a call of the hook
HookBeforeGroupNotAndColumnMenus ==
    args.header_fn =>
        \A k \in 1..Len(trace) :
            ~Unrefreshed(k, {"_build_group", "_build_not", "column"})

-----------------------------------------------------------------------------
(* What a group shows at the start of a turn                               *)
(*                                                                         *)
(* The event expression_so_far of a step is the pair of prints             *)
(* "Expression so far:" and format_expression(current) of _build_group;    *)
(* its expr is current.                                                    *)

\* the items accepted so far by the groups in progress
Accepted(frames) ==
    UNION {{frames[k].children[i] : i \in 1..Len(frames[k].children)} :
           k \in GroupFrames(frames)}

\* the step showed, after the hook if there is one, an expression holding
\* every one of items
Shown(items) ==
    \E j \in 1..Len(trace) :
        /\ trace[j].ev = "expression_so_far"
        /\ items \subseteq Nodes(trace[j].expr)
        /\ args.header_fn => \E h \in 1..(j - 1) : trace[h].ev = "header_fn"

\* C25: whenever a group, top-level or nested, waits for the choice of a
\* turn, the turn has shown, after the refresh hook, an expression that
\* holds every item accepted so far in the build, those accepted by the
\* enclosing groups included.
C25_ShowsAccumulatedExpression ==
    Waiting("_build_group", "prompt") /\ Accepted(stack) # {} =>
        Shown(Accepted(stack))

\* a sub-group that has accepted an item waits for a choice under a
\* top-level group that has accepted another: the turn showed the sub-group
\* alone
C25_Witness ==
    /\ Len(stack) = 2
    /\ Waiting("_build_group", "prompt")
    /\ stack[1].children # <<>>
    /\ stack[2].children # <<>>
    /\ Shown(Accepted(<<stack[2]>>))
    /\ ~Shown(Accepted(<<stack[1]>>))

\* whenever a group waits for the choice of a turn and has itself accepted an
\* item, the turn has shown, after the refresh hook, the group with its items
ShowsOwnItems ==
    Waiting("_build_group", "prompt") /\ stack[Len(stack)].children # <<>>
        => \E j \in 1..Len(trace) :
              /\ trace[j] = [ev |-> "expression_so_far",
                             expr |-> group_node(stack[Len(stack)])]
              /\ args.header_fn => trace[j - 1].ev = "header_fn"

-----------------------------------------------------------------------------
(* How a build ends                                                        *)
(*                                                                         *)
(* BuildLiveSpec is the builder with a user who answers every prompt and   *)
(* who, at the menu of every group opened, eventually enters 0: the groups *)
(* nested n deep cannot come to their menu again and again without a 0     *)
(* entered there.  Trees are kept one node smaller than in BuildSpec.      *)

MaxNested == MaxBuilt - 1

\* the groups open, the top-level one included
Nested == Cardinality(GroupFrames(stack))

\* the user enters 0 at the menu of a group nested n deep
EntersZeroAt(n) ==
    /\ Nested = n
    /\ AnswerGroupMenu({<<"0">>}, MaxNested)

BuildLiveNext ==
    \/ CallBuildExpression(BuildColumns, {TRUE})
    \/ AnswerGroupMenu({<<"0">>, <<"1">>, <<"3">>, <<"4">>, <<"x">>},
                       MaxNested)
    \/ AnswerNotMenu({<<"0">>, <<"2">>, <<"x">>})
    \/ AnswerOperator({<<"1">>, <<"2">>, <<"5">>, <<"7">>})
    \/ AnswerColumn({<<"1">>, <<"3">>})
    \/ AnswerValue(ValueAnswers)
    \/ AnswerComparison({<<"1">>, <<"x">>})
    \/ AnswerNumber(NumberAnswers)

BuildLiveSpec ==
    /\ BuildInit
    /\ [][BuildLiveNext]_vars
    /\ WF_vars(BuildLiveNext)
    /\ \A n \in 1..MaxNested : SF_vars(EntersZeroAt(n))

\* the step is the answer 0 at the menu of the top-level group, no other
\* call open
ZeroAtTopLevel ==
    /\ Len(stack) = 1
    /\ ClosesGroup

Prompts == {"prompt", "operator", "column", "value", "comparison", "number"}

\* C26: build_expression returns exactly in the step that reads 0 at the
\* menu of the top-level group with no nested call open; every other answer,
\* valid or not, leaves the builder waiting at a prompt, not returned and
\* not failed, so that a user who never enters that 0 is asked forever.
\* With a user who eventually enters 0 at every group menu opened, every
\* build called returns.
C26_StopsOnlyByCompletion ==
    /\ [][stack # <<>> =>
             /\ Returned' <=> ZeroAtTopLevel
             /\ IF Returned' THEN stack' = <<>>
                ELSE /\ stack' # <<>>
                     /\ stack'[Len(stack')].pc \in Prompts]_vars
    /\ (stack # <<>>) ~> Returned

\* build_expression has returned, by the answer 0 at the top-level menu, a
\* tree with a sub-group in it
C26_Witness ==
    /\ Returned
    /\ \E i \in 1..Len(result.children) : IsGroup(result.children[i])
    /\ trace[1] = [ev |-> "input", raw |-> <<"0">>]

-----------------------------------------------------------------------------
(* The flat API: evaluate_conditions of conditions.py and the private      *)
(* _evaluate_conditions of features/split_join_rows.py, over the list of   *)
(* Conditions held in pending.  flat keeps the outcome of each evaluator   *)
(* applied to the list since it last changed.                              *)

\* evaluate_conditions whose loop answers for the first condition alone
RECURSIVE evaluate_conditions_first_only(_, _)
evaluate_conditions_first_only(r, conditions) ==
    IF conditions = <<>> THEN Return(TRUE)
    ELSE LET out == evaluate_single_condition(r, Head(conditions))
         IN  IF out.exc # "" THEN out ELSE Return(out.value)

\* evaluate_conditions(row, conditions): the loop returns False at the first
\* condition that does not hold, True after the last
RECURSIVE evaluate_conditions(_, _)
evaluate_conditions(r, conditions) ==
    IF conditions = <<>> THEN Return(TRUE)
    ELSE LET out == evaluate_single_condition(r, Head(conditions))
         IN  IF out.exc # "" THEN out
             ELSE IF ~out.value THEN Return(FALSE)
             ELSE evaluate_conditions(r, Tail(conditions))

\* _evaluate_conditions of Split-Join that takes contains for equals
RECURSIVE split_join_evaluate_conditions_equal(_, _)
split_join_evaluate_conditions_equal(r, conditions) ==
    IF conditions = <<>> THEN Return(TRUE)
    ELSE LET cond == Head(conditions)
             val == cell_val(r, cond)
             wanted == value_or_empty(cond.value)
             fails ==
                 IF cond.operator = "not_empty" THEN val = <<>>
                 ELSE IF cond.operator = "equals" THEN val # wanted
                 ELSE IF cond.operator = "not_equals" THEN val = wanted
                 ELSE IF cond.operator = "contains" THEN val # wanted
                 ELSE FALSE
         IN  IF fails THEN Return(FALSE)
             ELSE split_join_evaluate_conditions_equal(r, Tail(conditions))

\* _evaluate_conditions(input_row, conditions) of Split-Join: a condition of
\* an operator that is none of its four takes no branch and is passed over
RECURSIVE split_join_evaluate_conditions(_, _)
split_join_evaluate_conditions(r, conditions) ==
    IF conditions = <<>> THEN Return(TRUE)
    ELSE LET cond == Head(conditions)
             val == cell_val(r, cond)
             wanted == value_or_empty(cond.value)
             fails ==
                 IF cond.operator = "not_empty" THEN val = <<>>
                 ELSE IF cond.operator = "equals" THEN val # wanted
                 ELSE IF cond.operator = "not_equals" THEN val = wanted
                 ELSE IF cond.operator = "contains"
                 THEN ~contains(wanted, val)
                 ELSE FALSE
         IN  IF fails THEN Return(FALSE)
             ELSE split_join_evaluate_conditions(r, Tail(conditions))

Applied(out) == [exc |-> out.exc, applied |-> TRUE, value |-> out.value]

\* evaluate_conditions(row, pending)
EvaluateConditions ==
    /\ flat.evaluate_conditions = NoOutcome
    /\ flat' = [flat EXCEPT !.evaluate_conditions =
                   Applied(evaluate_conditions(row, pending))]
    /\ UNCHANGED <<evalVars, display, beyondEval>>

\* evaluate_expression(row, AndExpr(children=pending))
EvaluateAsAndExpr ==
    /\ flat.evaluate_expression = NoOutcome
    /\ flat' = [flat EXCEPT !.evaluate_expression =
                   Applied(evaluate_expression(row, AndExpr(pending)))]
    /\ UNCHANGED <<evalVars, display, beyondEval>>

\* _evaluate_conditions(row, pending) of Split-Join
SplitJoinEvaluate ==
    /\ flat.split_join = NoOutcome
    /\ flat' = [flat EXCEPT !.split_join =
                   Applied(split_join_evaluate_conditions(row, pending))]
    /\ UNCHANGED <<evalVars, display, beyondEval>>

\* Lists of up to MaxNodes conditions: one of each operator, a condition of
\* an absent column, a word_count whose value is malformed and a condition
\* of an operator that does not exist; against a missing cell, a word, a
\* padded word and a number.
FlatLeaves ==
    {Condition("Name", "not_empty", None),
     Condition("Name", "equals", <<"a">>),
     Condition("Name", "not_equals", None),
     Condition("Name", "contains", <<"a">>),
     Condition("Age", "contains", None),
     Condition("Name", "word_count", eq \o colon \o <<"1">>),
     Condition("Name", "word_count", gt \o colon \o abc),
     Condition("Name", "alpha_only", None),
     Condition("Name", "starts_with", <<"a">>)}

FlatRows ==
    {r \in Rows : DOMAIN r = {"Name"}
                  /\ r["Name"] \in {NaN, <<"a">>, <<" ", "a", " ">>,
                                    <<"1">>, <<"a", " ", "a">>}}

FlatInit == InitWith(FlatRows)

FlatNext ==
    \/ NewCondition(FlatLeaves, MaxNodes)
    \/ EvaluateConditions
    \/ EvaluateAsAndExpr
    \/ SplitJoinEvaluate

FlatSpec == FlatInit /\ [][FlatNext]_vars

\* both outcomes name the same result: the same exception, or none and the
\* same value
Agree(out, other) ==
    /\ out.exc = other.exc
    /\ out.exc = "" => out.value = other.value

\* C27: for every row and every list cs of Conditions, the outcome of
\* evaluate_conditions(row, cs) and that of evaluate_expression(row,
\* AndExpr(cs)) are the same, a boolean returned; for the empty list it is
\* True.
C27_FlatAgreesWithTree ==
    flat.evaluate_conditions.applied /\ flat.evaluate_expression.applied =>
        /\ Agree(flat.evaluate_conditions, flat.evaluate_expression)
        /\ flat.evaluate_conditions.exc = ""
        /\ flat.evaluate_conditions.value \in BOOLEAN
        /\ pending = <<>> => flat.evaluate_conditions.value

\* both have been applied to a list of three conditions of which the first
\* holds on the row and a later one does not
C27_Witness ==
    /\ flat.evaluate_conditions.applied
    /\ flat.evaluate_expression.applied
    /\ Len(pending) = 3
    /\ evaluate_single_condition(row, pending[1]).value
    /\ ~flat.evaluate_conditions.value

-----------------------------------------------------------------------------
(* Split-Join's evaluator against the shared one                           *)

\* the operators Split-Join offers and its Condition documents
SplitJoinOperators == {"not_empty", "equals", "not_equals", "contains"}

BothApplied == flat.split_join.applied /\ flat.evaluate_conditions.applied

\* C28 as claimed: for every row and every list of conditions, whatever
\* operator strings they carry, _evaluate_conditions of Split-Join and
\* evaluate_conditions give the same verdict.
C28_SplitJoinAgrees ==
    BothApplied => Agree(flat.split_join, flat.evaluate_conditions)

\* C28, amended: for every row and every list of conditions whose operators
\* are among not_empty, equals, not_equals and contains,
\* _evaluate_conditions of Split-Join and evaluate_conditions give the same
\* verdict; on any list, Split-Join's verdict is that of evaluate_conditions
\* on the list without the conditions of other operators.
C28_SplitJoinAgreesOnItsOperators ==
    BothApplied =>
        LET its == SelectSeq(pending,
                       LAMBDA cond : cond.operator \in SplitJoinOperators)
        IN  /\ its = pending =>
                Agree(flat.split_join, flat.evaluate_conditions)
            /\ Agree(flat.split_join, evaluate_conditions(row, its))

\* both have been applied to a list of three conditions of Split-Join's
\* operators that do not all hold on the row
C28_Witness ==
    /\ BothApplied
    /\ Len(pending) = 3
    /\ \A k \in 1..3 : pending[k].operator \in SplitJoinOperators
    /\ \E k \in 1..3 : pending[k].operator = "contains"
    /\ evaluate_single_condition(row, pending[1]).value
    /\ ~flat.split_join.value

-----------------------------------------------------------------------------
(* The Remove Rows feature (src/csv_me/features/remove_rows.py).           *)
(*                                                                         *)
(* removal is the position of run(session) and its locals: the table read, *)
(* the list build_conditions has so far, and what run computes from them.  *)
(* A table is the sequence of its rows.  The directory holds the names of  *)
(* the files written, as for the session.                                  *)

AtRemoveMenu ==
    [pc |-> "menu", df |-> <<>>, conditions |-> <<>>, mask |-> <<>>,
     result_df |-> <<>>, removed_count |-> 0, removed_df |-> <<>>,
     removed_path |-> <<>>, out |-> <<>>]

\* _prompt_word_count_value(), given the answers to its two prompts
prompt_word_count_value(raw, num_raw) ==
    LET cmp_idx == choice_of(raw)
        num == choice_of(num_raw)
    IN  IF cmp_idx.exc # "" THEN None
        ELSE IF ~(1 <= cmp_idx.num
                  /\ cmp_idx.num <= Len(WORD_COUNT_COMPARISONS))
        THEN None
        ELSE IF num.exc # "" THEN None
        ELSE WORD_COUNT_COMPARISONS[cmp_idx.num] \o colon \o int_str(num.num)

\* One turn of the loop of build_conditions, given the answers to the
\* prompts it comes to: the operator, the column, and the value or the
\* comparison and the number (lines 296-358).  0 leaves the loop; an answer
\* that selects nothing starts the loop over with the list as it is.
build_conditions_turn(conditions, columns, answers) ==
    LET again == [done |-> FALSE, conditions |-> conditions]
        added(cond) == [done |-> FALSE, conditions |-> Append(conditions,
            cond)]
        idx == choice_of(answers.op)
        col_idx == choice_of(answers.col)
    IN  IF idx.exc # "" THEN again
        ELSE IF idx.num = 0 THEN [done |-> TRUE, conditions |-> conditions]
        ELSE IF ~(1 <= idx.num /\ idx.num <= Len(OPERATORS)) THEN again
        ELSE IF col_idx.exc # "" THEN again
        ELSE IF ~(1 <= col_idx.num /\ col_idx.num <= Len(columns)) THEN again
        ELSE LET op == OPERATORS[idx.num]
                 in_col == columns[col_idx.num]
                 counted == prompt_word_count_value(answers.cmp, answers.num)
             IN  IF op = "word_count"
                 THEN IF counted = None THEN again
                      ELSE added(Condition(in_col, op, counted))
                 ELSE IF op \notin {"not_empty", "alpha_only"}
                 THEN added(Condition(in_col, op, answers.value))
                 ELSE added(Condition(in_col, op, None))

\* a row is kept when the first condition does not hold on it
keeps_by_first(r, conditions) ==
    ~evaluate_single_condition(r, conditions[1]).value

\* lambda row: not evaluate_conditions(row, conditions)
keeps(r, conditions) == ~evaluate_conditions(r, conditions).value

\* df[mask].reset_index(drop=True): the rows whose mask is True, in order
RECURSIVE boolean_index(_, _)
boolean_index(df, mask) ==
    IF df = <<>> THEN <<>>
    ELSE (IF Head(mask) THEN <<Head(df)>> ELSE <<>>)
             \o boolean_index(Tail(df), Tail(mask))

\* run, from the return of build_conditions to "Proceed with removal?"
\* (lines 42-67)
after_build_conditions(m, conditions) ==
    IF conditions = <<>>
    THEN [m EXCEPT !.pc = "no_conditions"]
    ELSE IF \E i \in 1..Len(m.df) :
                evaluate_conditions(m.df[i], conditions).exc # ""
    THEN [m EXCEPT !.pc = "raised", !.conditions = conditions]
    ELSE LET mask == [i \in 1..Len(m.df) |-> keeps(m.df[i], conditions)]
             result_df == boolean_index(m.df, mask)
         IN  [m EXCEPT !.pc = "confirm", !.conditions = conditions,
                       !.mask = mask, !.result_df = result_df,
                       !.removed_count = Len(m.df) - Len(result_df)]

\* removed_name.strip().replace(" ", "_").lower()
safe_name(removed_name) == safe_label(strip(removed_name))

\* run, from the name of the removed-rows file to "Done!" (lines 75-98)
after_name(m, d, s, removed_name) ==
    LET removed_df == boolean_index(m.df, [i \in 1..Len(m.df) |-> ~m.mask[i]])
        removed_path == safe_name(removed_name) \o <<".", "c", "s", "v">>
        written == [d EXCEPT !.files = @ \cup {removed_path}]
        saved == save_step(written, s, <<"r", "e", "m", "o", "v", "e", "_",
            "r", "o", "w", "s">>)
    IN  [removal |-> [m EXCEPT !.pc = "done", !.removed_df = removed_df,
                               !.removed_path = removed_path,
                               !.out = saved.session.current_file],
         session |-> saved.session,
         disk |-> logger_log(saved.disk, "Remove Rows", "Removed")]

\* the main menu calls run(session)
EnterRemoveRows ==
    /\ session.alive
    /\ session.step < MaxSteps
    /\ edit = NotEditing
    /\ removal = NotRemoving
    /\ removal' = AtRemoveMenu
    /\ UNCHANGED <<evalVars, display, flat, buildVars, sessVars, edit>>

\* the Remove Rows menu: 0 goes back, 1 reads the table and calls
\* build_conditions (lines 17-40)
RemoveRowsMenu(tables) ==
    /\ removal.pc = "menu"
    /\ \/ removal' = NotRemoving
       \/ \E df \in tables :
            removal' = [AtRemoveMenu EXCEPT !.pc = "building", !.df = df]
    /\ UNCHANGED <<evalVars, display, flat, buildVars, sessVars, edit>>

\* the user answers the prompts of one turn of build_conditions
BuildConditionsTurn(answers, limit) ==
    /\ removal.pc = "building"
    /\ \E given \in answers :
         LET turn == build_conditions_turn(removal.conditions, <<"Name">>,
                                           given)
         IN  /\ Len(turn.conditions) <= limit
             /\ removal' =
                  IF turn.done
                  THEN after_build_conditions(removal, turn.conditions)
                  ELSE [removal EXCEPT !.conditions = turn.conditions]
    /\ UNCHANGED <<evalVars, display, flat, buildVars, sessVars, edit>>

\* Enter at "Press Enter to continue...": after "No conditions defined" the
\* loop of run starts over, after "Done!" run returns (lines 44-45, 98-99)
PressEnterRemoveRows ==
    /\ removal.pc \in {"no_conditions", "done"}
    /\ removal' = IF removal.pc = "done" THEN NotRemoving ELSE AtRemoveMenu
    /\ UNCHANGED <<evalVars, display, flat, buildVars, sessVars, edit>>

\* "Proceed with removal?" (lines 67-68)
ConfirmRemoval ==
    /\ removal.pc = "confirm"
    /\ \E yes \in BOOLEAN :
         removal' = IF yes THEN [removal EXCEPT !.pc = "name"]
                    ELSE AtRemoveMenu
    /\ UNCHANGED <<evalVars, display, flat, buildVars, sessVars, edit>>

\* "Name for the removed-rows file": the two files are written and the step
\* is logged (lines 71-90)
NameRemovedFile(names) ==
    /\ removal.pc = "name"
    /\ \E removed_name \in names :
         LET outcome == after_name(removal, disk, session, removed_name)
         IN  /\ removal' = outcome.removal
             /\ session' = outcome.session
             /\ disk' = outcome.disk
    /\ UNCHANGED <<evalVars, display, flat, buildVars, resumed, edit>>

\* What the feature is given in RemoveRowsSpec: a session on a CSV file, a
\* table of one column and one to three rows, a user who adds conditions of
\* every operator, answers some prompts with what selects nothing, and
\* names the removed-rows file.
RemoveTables ==
    {<<[Name |-> <<"a">>]>>,
     <<[Name |-> NaN], [Name |-> <<"a">>]>>,
     <<[Name |-> <<"a">>], [Name |-> <<"1">>], [Name |-> <<"a">>]>>,
     <<[Name |-> <<"a", " ", "b">>], [Name |-> <<"a">>], [Name |-> <<"1">>]>>}

TurnAnswers ==
    [op : {<<"0">>, <<"1">>, <<"2">>, <<" ", "5">>, <<"6">>, <<"7">>, <<"x">>},
     col : {<<"1">>, <<"2">>},
     value : {<<"a">>},
     cmp : {<<"3">>, <<"x">>},
     num : {<<"1">>, <<"x">>}]

RemovedNames == {<<"r", "e", "m", "o", "v", "e", "d", "_", "r", "o", "w",
    "s">>, <<" ", "S", "o", "l", "d", " ", "o", "u", "t">>}

RemoveRowsInit == InitWith({[Name |-> <<"a">>]})

RemoveRowsNext ==
    \/ StartSession({[name |-> <<"d", ".", "c", "s", "v">>, exists |-> TRUE]})
    \/ EnterRemoveRows
    \/ RemoveRowsMenu(RemoveTables)
    \/ BuildConditionsTurn(TurnAnswers, MaxNodes)
    \/ PressEnterRemoveRows
    \/ ConfirmRemoval
    \/ NameRemovedFile(RemovedNames)

RemoveRowsSpec == RemoveRowsInit /\ [][RemoveRowsNext]_vars

-----------------------------------------------------------------------------
(* Properties of Remove Rows (RemoveRowsSpec).                             *)

\* the rows of a table on which every condition of the list holds
Matching(df, conditions) ==
    {i \in 1..Len(df) :
        \A k \in 1..Len(conditions) :
            evaluate_single_condition(df[i], conditions[k]) = Return(TRUE)}

\* the rows of a table at the positions of a set, in the order of the table
Pick(df, places) ==
    [k \in 1..Cardinality(places) |->
        df[CHOOSE i \in places : Cardinality({j \in places : j < i}) = k - 1]]

-----------------------------------------------------------------------------
(* The bookkeeping of the session (SessionSpec).                           *)

\* the name of a file starts with the digits of n and an underscore
CarriesStep(name, n) ==
    \E k \in 2..Len(name) :
        /\ name[k] = "_"
        /\ \A j \in 1..(k - 1) : name[j] \in Digits
        /\ PyInt(SubSeq(name, 1, k - 1)) = [exc |-> "", num |-> n]

\* the manifest in the directory records the session as it is
Recorded(s, d) ==
    /\ d.manifest.written
    /\ d.manifest.step = s.step
    /\ d.manifest.current_file = s.current_file
    /\ d.manifest.history = s.history

\* C30: of a Session, from its construction on and over every call of
\* save_step: history has step + 1 entries, the first is the copy of the
\* original file, the last is current_file, the entry of step k carries the
\* number k in its name, the entries are files of the directory, no two the
\* same, and the manifest records the step, the current file and the history
\* of the session.  The session is constructed at step 0; a call of
\* save_step adds one to step and appends to history one file that the
\* directory did not have, leaving the files there; nothing else changes the
\* session or the files.
C30_SessionBookkeeping ==
    /\ [](session.alive =>
            LET history == session.history
            IN  /\ Len(history) = session.step + 1
                /\ history[1] = <<"0", "0", "_", "o", "r", "i", "g", "i",
                    "n", "a", "l", "_">> \o session.original_path
                /\ session.current_file = history[Len(history)]
                /\ \A k \in 2..Len(history) : CarriesStep(history[k], k - 1)
                /\ \A j, k \in 1..Len(history) :
                       history[j] = history[k] => j = k
                /\ \A k \in 1..Len(history) : history[k] \in disk.files
                /\ Recorded(session, disk))
    /\ [][/\ (~session.alive /\ session'.alive) => session'.step = 0
          /\ (session.alive /\ session'.alive) =>
                IF SaveStep(StepLabels)
                THEN /\ session'.step = session.step + 1
                     /\ session'.history =
                            Append(session.history, session'.current_file)
                     /\ session'.current_file \notin disk.files
                     /\ disk'.files =
                            disk.files \cup {session'.current_file}
                ELSE /\ session' = session
                     /\ disk'.files = disk.files]_vars

\* two steps were saved under two labels, and an entry logged between them
C30_Witness ==
    /\ session.alive
    /\ session.history = <<<<"0", "0", "_", "o", "r", "i", "g", "i", "n",
        "a", "l", "_", "d", ".", "c", "s", "v">>, <<"0", "1", "_", "s", "o",
            "r", "t", "_", "a", ".", "c", "s", "v">>,
                           <<"0", "2", "_", "m", "a", "n", "u", "a", "l",
                               "_", "e", "d", "i", "t", ".", "c", "s", "v">>>>
    /\ Len(disk.log) = 3

====
